---- MODULE Spec2Model ----
(***************************************************************************)
(* A model of make_platform_utils.py: the command-chain interpreter        *)
(* (CommandProcessor.parse_commands), its registry and arity resolver, and *)
(* the handlers of the registered commands.                                *)
(*                                                                         *)
(* Text (tokens, the buffer, lines) is modelled by TLA+ strings; Python's  *)
(* None is the empty set and an optional value x is the set {x}.           *)
(***************************************************************************)
EXTENDS Integers, Sequences, FiniteSets, TLC

(***************************************************************************)
(* Bounds of the model.                                                    *)
(***************************************************************************)
\* the longest list of Tokens (after the program name) that Init draws
MaxArgs == 3
\* the largest column number of the "column=k,int" flag lists that Init draws
MaxColumn == 3
\* the largest line index that Init draws for --include and --exclude, over
\* buffers of up to five lines
MaxIndex == 6

(***************************************************************************)
(* CommandResults, lines 29-53.                                            *)
(***************************************************************************)
Ok == 0
UndefinedError == 1
RegexError == 2
IOError == 3
InvalidLine == 4
InvalidEnvValue == 5
MissingParameter == 6
UnknownArgument == 7
NoCommands == 8
CommandError == 9
CommandNotFoundError == 10
CommandExecFailedError == 11
CommandOSError == 12
InvalidOutputMode == 13
InvalidSortFlag == 14
InvalidSortColumn == 15
InvalidSortValue == 16
InvalidSumFlag == 17
InvalidSumValue == 18
InvalidFilterFlag == 19
Not == 20

\* CommandResults.check
check(r) == r >= Ok /\ r <= Not

\* The value of a Python function that falls off its end (ensure_dirs): it is
\* no member of the taxonomy; an integer outside 0..20 stands for it.
NoneResult == 0 - 1

\* Python's None for optional strings, and an optional string that is set.
None == {}
Some(x) == {x}

(***************************************************************************)
(* The str methods the program uses.                                       *)
(***************************************************************************)
Min(S) == CHOOSE m \in S : \A n \in S : m <= n

\* s[i:i+1], 1-based: "" outside the string
Chr(s, i) == IF 1 <= i /\ i <= Len(s) THEN SubSeq(s, i, i) ELSE ""

startswith(s, p) == Len(p) <= Len(s) /\ SubSeq(s, 1, Len(p)) = p

endswith(s, p) == Len(p) <= Len(s) /\ SubSeq(s, Len(s) - Len(p) + 1, Len(s)) = p

\* removeprefix, lines 18-22
removeprefix(string, prefix) ==
    IF startswith(string, prefix)
    THEN SubSeq(string, Len(prefix) + 1, Len(string))
    ELSE string

\* removesuffix, lines 23-27: string[:-len(suffix)], which is "" for an empty
\* suffix
removesuffix(string, suffix) ==
    IF endswith(string, suffix)
    THEN IF Len(suffix) = 0 THEN "" ELSE SubSeq(string, 1, Len(string) - Len(suffix))
    ELSE string

\* str.find, 1-based; 0 when sub does not occur
find(s, sub) ==
    LET I == {i \in 1..(Len(s) - Len(sub) + 1) : SubSeq(s, i, i + Len(sub) - 1) = sub}
    IN IF I = {} THEN 0 ELSE Min(I)

contains(s, sub) == find(s, sub) # 0

\* str.replace(old, new), old not empty
RECURSIVE replace(_, _, _)
replace(s, old, new) ==
    LET i == find(s, old)
    IN IF i = 0 THEN s
       ELSE SubSeq(s, 1, i - 1) \o new
            \o replace(SubSeq(s, i + Len(old), Len(s)), old, new)

\* the white space str.strip() removes and the line boundaries of
\* str.splitlines(), as far as TLA+ strings can spell them
Whitespace == {" ", "\t", "\n", "\r", "\f"}

RECURSIVE lstrip(_)
lstrip(s) ==
    IF s # "" /\ Chr(s, 1) \in Whitespace THEN lstrip(SubSeq(s, 2, Len(s))) ELSE s

RECURSIVE rstrip(_)
rstrip(s) ==
    IF s # "" /\ Chr(s, Len(s)) \in Whitespace
    THEN rstrip(SubSeq(s, 1, Len(s) - 1))
    ELSE s

strip(s) == rstrip(lstrip(s))

\* str.splitlines(): no empty last line after a final line break, and
\* "\r\n" is one boundary
RECURSIVE splitlines(_)
splitlines(s) ==
    IF s = "" THEN <<>>
    ELSE LET I == {i \in 1..Len(s) : Chr(s, i) \in {"\n", "\r", "\f"}}
         IN IF I = {} THEN <<s>>
            ELSE LET i == Min(I)
                     skip == IF Chr(s, i) = "\r" /\ i < Len(s) /\ Chr(s, i + 1) = "\n"
                             THEN 2 ELSE 1
                 IN <<SubSeq(s, 1, i - 1)>>
                    \o splitlines(SubSeq(s, i + skip, Len(s)))

\* sep.join(seq)
RECURSIVE join(_, _)
join(sep, seq) ==
    IF seq = <<>> THEN ""
    ELSE IF Len(seq) = 1 THEN seq[1]
    ELSE seq[1] \o sep \o join(sep, Tail(seq))

\* str.lower() and str.upper() on ASCII letters
UpperCase == "ABCDEFGHIJKLMNOPQRSTUVWXYZ"
LowerCase == "abcdefghijklmnopqrstuvwxyz"

MapChar(c, from, to) ==
    LET i == find(from, c) IN IF i = 0 THEN c ELSE Chr(to, i)

RECURSIVE MapStr(_, _, _)
MapStr(s, from, to) ==
    IF s = "" THEN ""
    ELSE MapChar(Chr(s, 1), from, to) \o MapStr(SubSeq(s, 2, Len(s)), from, to)

lower(s) == MapStr(s, UpperCase, LowerCase)
upper(s) == MapStr(s, LowerCase, UpperCase)

\* int(x) and str(n) on decimal integers: an optional sign and digits (the
\* other spellings int() accepts, such as blanks around the digits and
\* underscores between them, are not drawn by the model)
Digits == "0123456789"

IsDigits(s) == s # "" /\ \A i \in 1..Len(s) : contains(Digits, Chr(s, i))

int_ok(s) ==
    IF s # "" /\ Chr(s, 1) \in {"-", "+"}
    THEN IsDigits(SubSeq(s, 2, Len(s)))
    ELSE IsDigits(s)

\* os.path.dirname and os.path.basename (posixpath; ntpath agrees on the
\* paths without a drive or a backslash that the model draws)
rfind(s, c) ==
    LET I == {i \in 1..Len(s) : Chr(s, i) = c} IN IF I = {} THEN 0 ELSE CHOOSE m \in I : \A n \in I : n <= m

RECURSIVE rstrip_char(_, _)
rstrip_char(s, c) ==
    IF s # "" /\ Chr(s, Len(s)) = c THEN rstrip_char(SubSeq(s, 1, Len(s) - 1), c) ELSE s

os_path_dirname(p) ==
    LET head == SubSeq(p, 1, rfind(p, "/"))
    IN IF head # "" /\ rstrip_char(head, "/") # "" THEN rstrip_char(head, "/") ELSE head

os_path_basename(p) == SubSeq(p, rfind(p, "/") + 1, Len(p))

RECURSIVE DigitsValue(_)
DigitsValue(s) ==
    IF s = "" THEN 0
    ELSE 10 * DigitsValue(SubSeq(s, 1, Len(s) - 1)) + (find(Digits, Chr(s, Len(s))) - 1)

int(s) ==
    IF Chr(s, 1) = "-" THEN 0 - DigitsValue(SubSeq(s, 2, Len(s)))
    ELSE IF Chr(s, 1) = "+" THEN DigitsValue(SubSeq(s, 2, Len(s)))
    ELSE DigitsValue(s)

RECURSIVE NatStr(_)
NatStr(n) ==
    IF n < 10 THEN Chr(Digits, n + 1)
    ELSE NatStr(n \div 10) \o Chr(Digits, (n % 10) + 1)

str(n) == IF n < 0 THEN "-" \o NatStr(0 - n) ELSE NatStr(n)

\* list[a:b] of Python, on a 1-based sequence: negative indices count from
\* the end and both ends are clamped
SliceIndex(n, len) ==
    IF n < 0 THEN (IF len + n < 0 THEN 0 ELSE len + n)
    ELSE IF n > len THEN len ELSE n

(***************************************************************************)
(* CommandProcessor.Command, lines 71-85, and the registry: the decorated  *)
(* methods in the order of the class dictionary, which parse_commands      *)
(* iterates (lines 984-986).  A name declared twice keeps the place of its *)
(* first declaration and the value of its second.                          *)
(***************************************************************************)
Command(arg_long, arg_short, param_names, param_count, param_until, param_convert, func) ==
    [arg_long |-> arg_long,
     arg_short |-> arg_short,
     param_count |-> IF param_count >= 0 THEN param_count
                     ELSE IF param_until # None THEN 0 - 1
                     ELSE Len(param_names),
     param_until |-> param_until,
     param_convert |-> param_convert,
     func |-> func]

Registry ==
    << Command("--env", None, <<"KEY=VALUE">>, 0 - 1, None, None, "set_env"),
       Command("--stdout", None, <<"MODE|PATH">>, 0 - 1, None, None, "set_stdout"),
       Command("--stderr", None, <<"MODE|PATH">>, 0 - 1, None, None, "set_stderr"),
       Command("--stoponerror", None, <<"MODE">>, 0 - 1, None, None, "set_exit"),
       Command("--help", Some("-h"), <<>>, 0 - 1, None, None, "print_help"),
       Command("--platform-exec", None, <<>>, 0 - 1, None, None, "platform_exec"),
       Command("--platform-open", None, <<>>, 0 - 1, None, None, "platform_open"),
       Command("--exec", Some("-e"), <<"COMMAND", "ARGS...">>, 0 - 1, Some(";"), None, "run_command"),
       Command("--in", Some("-i"), <<"STR">>, 0 - 1, None, None, "append"),
       Command("--read", Some("-r"), <<"PATH">>, 0 - 1, None, None, "read"),
       Command("--platform", Some("-p"), <<>>, 0 - 1, None, None, "platform"),
       Command("--cygwin", Some("-c"), <<>>, 0 - 1, None, None, "cygwin_version"),
       Command("--mingw", Some("-m"), <<>>, 0 - 1, None, None, "mingw_version"),
       Command("--timestamp", None, <<>>, 0 - 1, None, None, "timestamp"),
       Command("--out", Some("-o"), <<"PATH">>, 0 - 1, None, None, "write_file"),
       Command("--append", Some("-a"), <<"PATH">>, 0 - 1, None, None, "append_file"),
       Command("--print", None, <<>>, 0 - 1, None, None, "print"),
       Command("--foreach", None, <<"COMMAND", "ARGS...">>, 0 - 1, Some(";"), None, "for_each_line"),
       Command("--include", None, <<"FROM", "TO">>, 0 - 1, None, Some("int"), "lines"),
       Command("--exclude", None, <<"FROM", "TO">>, 0 - 1, None, Some("int"), "remove_lines"),
       Command("--lower", Some("-l"), <<>>, 0 - 1, None, None, "to_lower"),
       Command("--upper", Some("-u"), <<>>, 0 - 1, None, None, "to_upper"),
       Command("--filter", Some("-f"), <<"REGEX">>, 0 - 1, None, None, "filter_lines"),
       Command("--filter-out", None, <<"REGEX">>, 0 - 1, None, None, "remove_lines_regex"),
       Command("--noempty", None, <<>>, 0 - 1, None, None, "remove_empty_lines"),
       Command("--sub", Some("-s"), <<"REGEX", "SUB">>, 2, None, None, "regex_replace"),
       Command("--sort", None, <<"FLAGS">>, 0 - 1, None, None, "sort"),
       Command("--unique", None, <<>>, 0 - 1, None, None, "unique"),
       Command("--reverse", None, <<>>, 0 - 1, None, None, "reverse_lines"),
       Command("--first", None, <<>>, 0 - 1, None, None, "first_line"),
       Command("--last", None, <<>>, 0 - 1, None, None, "last_line"),
       Command("--sum", None, <<"FLAGS">>, 0 - 1, None, None, "sum_lines"),
       Command("--count", None, <<>>, 0 - 1, None, None, "count_lines"),
       Command("--env-path", None, <<>>, 0 - 1, None, None, "env_path"),
       Command("--platform-path", None, <<>>, 0 - 1, None, None, "platform_path"),
       Command("--shell-list", None, <<>>, 0 - 1, None, None, "shell_list"),
       Command("--dirname", None, <<>>, 0 - 1, None, None, "dirname"),
       Command("--basename", None, <<>>, 0 - 1, None, None, "basename"),
       Command("--touch", None, <<"PATH">>, 0 - 1, None, None, "touch"),
       Command("--symlink", None, <<"TARGET", "LINK">>, 0 - 1, None, None, "symlink"),
       Command("--ensure-dir", None, <<"PATH">>, 0 - 1, None, None, "ensure_dir_explicit"),
       Command("--ensure-dirs", None, <<"PATH">>, 0 - 1, None, None, "ensure_dirs"),
       Command("--glob", None, <<>>, 0 - 1, None, None, "glob_lines"),
       Command("--exists", None, <<>>, 0 - 1, None, None, "exists"),
       Command("--print-valid", None, <<"FLAGS">>, 0 - 1, None, None, "print_valid") >>

(***************************************************************************)
(* Command line parsing, lines 938-974.                                    *)
(***************************************************************************)
\* a parse_command that leaves "--flag=value" at the head of the list
parse_command_keeps_head(a, arg_long, arg_short, requires) ==
    LET arg == a[1]
        rest == removeprefix(arg, arg_long)
        spliced == startswith(arg, arg_long) /\ startswith(rest, "=")
        popped == \/ startswith(arg, arg_long) /\ rest = ""
                  \/ ~startswith(arg, arg_long) /\ arg \in arg_short
        after == IF popped THEN Tail(a) ELSE a
    IN [matched |-> spliced \/ popped,
        args |-> after,
        raised |-> (spliced \/ popped) /\ Len(after) < requires]

\* parse_command on the argument list a: whether the head matches the flags,
\* the list after the pop or the splice of "=value", and whether
\* ParameterCountError is raised.
parse_command(a, arg_long, arg_short, requires) ==
    LET arg == a[1]
        rest == removeprefix(arg, arg_long)
        spliced == startswith(arg, arg_long) /\ startswith(rest, "=")
        popped == \/ startswith(arg, arg_long) /\ rest = ""
                  \/ ~startswith(arg, arg_long) /\ arg \in arg_short
        after == IF spliced THEN <<removeprefix(rest, "=")>> \o Tail(a)
                 ELSE IF popped THEN Tail(a)
                 ELSE a
    IN [matched |-> spliced \/ popped,
        args |-> after,
        raised |-> (spliced \/ popped) /\ Len(after) < requires]

\* parse_command_params with the terminator left in self.args (line 968 in
\* the place of line 966)
parse_command_params_keeps(a, command) ==
    LET taken == IF command.param_count >= 0
                 THEN SubSeq(a, 1, IF command.param_count < Len(a)
                                   THEN command.param_count ELSE Len(a))
                 ELSE a
        until == command.param_until # None
        I == {i \in 1..Len(taken) : taken[i] \in command.param_until}
        missing == until /\ I = {}
        captured == IF until /\ I # {} THEN SubSeq(taken, 1, Min(I) - 1) ELSE taken
        left == SubSeq(a, Len(captured) + 1, Len(a))
        bad == command.param_convert # None
               /\ \E i \in 1..Len(captured) : ~int_ok(captured[i])
    IN [raised |-> missing,
        args |-> IF missing THEN a ELSE left,
        convert_error |-> ~missing /\ bad,
        params |-> IF missing \/ bad THEN <<>>
                   ELSE IF command.param_convert # None
                   THEN [i \in 1..Len(captured) |-> int(captured[i])]
                   ELSE captured]

\* parse_command_params on the argument list a left by parse_command: the
\* captured parameters, the list left for the next stage, whether
\* ParameterCountError is raised (a missing terminator) and whether the
\* converter raises (ValueError of int()).
parse_command_params(a, command) ==
    LET taken == IF command.param_count >= 0
                 THEN SubSeq(a, 1, IF command.param_count < Len(a)
                                   THEN command.param_count ELSE Len(a))
                 ELSE a
        until == command.param_until # None
        I == {i \in 1..Len(taken) : taken[i] \in command.param_until}
        missing == until /\ I = {}
        captured == IF until /\ I # {} THEN SubSeq(taken, 1, Min(I) - 1) ELSE taken
        left == IF until /\ I # {}
                THEN SubSeq(a, Len(captured) + 2, Len(a))
                ELSE SubSeq(a, Len(captured) + 1, Len(a))
        bad == command.param_convert # None
               /\ \E i \in 1..Len(captured) : ~int_ok(captured[i])
    IN [raised |-> missing,
        args |-> IF missing THEN a ELSE left,
        convert_error |-> ~missing /\ bad,
        params |-> IF missing \/ bad THEN <<>>
                   ELSE IF command.param_convert # None
                   THEN [i \in 1..Len(captured) |-> int(captured[i])]
                   ELSE captured]

(***************************************************************************)
(* The state: the fields of CommandProcessor (lines 91-111), the locals of *)
(* parse_commands (lines 978-980), the host the process runs on, and       *)
(* what the run has done so far.                                           *)
(***************************************************************************)
VARIABLES
    argv,            \* sys.argv[1:]: the argument list the process was given
    args,            \* self.args: the tokens not yet consumed
    current_output,  \* self.current_output: the buffer
    env,             \* self.env: a function from names to values
    stdout_mode,     \* self.stdout_mode
    stdout_path,     \* self.stdout_path: None or Some(path)
    stderr_mode,     \* self.stderr_mode
    stderr_path,     \* self.stderr_path: None or Some(path)
    stop_on_error,   \* self.stop_on_error
    result,          \* parse_commands' local result; once pc = "returned",
                     \* the value parse_commands returned
    command,         \* parse_commands' local command: None or Some(arg_long)
    params,          \* parse_commands' local args: the last captured parameters
    pc,              \* "loop": at the loop test of line 981; "returned";
                     \* "raised": an exception left parse_commands
    host,            \* os.name, sys.platform, and the Cygwin and MSYS2 probes
    calls,           \* the handlers invoked at line 989, in order
    help_printed,    \* how often the help text was printed (print_help)
    spawned,         \* the argument vectors exec_cmd handed to Popen, in order
    open_files       \* how many files get_pipe_target has opened that
                     \* nothing has closed

vars == <<argv, args, current_output, env, stdout_mode, stdout_path, stderr_mode,
          stderr_path, stop_on_error, result, command, params, pc, host,
          calls, help_printed, spawned, open_files>>

\* CommandOutputMode, lines 61-68
ModeProcess == "process"
ModePrint == "print"
ModeIgnore == "ignore"
ModeWrite == "write"

\* the fields of self that handlers read and write, and what exec_cmd does
\* to the process: the children it spawned and the files it holds open
Self ==
    [current_output |-> current_output, env |-> env,
     stdout_mode |-> stdout_mode, stdout_path |-> stdout_path,
     stderr_mode |-> stderr_mode, stderr_path |-> stderr_path,
     stop_on_error |-> stop_on_error,
     spawned |-> spawned, open_files |-> open_files]

\* How a handler ends: it returns r with self left as s, or an exception
\* leaves it with self left as s.
Ret(s, r) == [self |-> s, result |-> r, raised |-> FALSE, help |-> FALSE]
Raise(s) == [self |-> s, result |-> UndefinedError, raised |-> TRUE, help |-> FALSE]

\* os.name == 'nt' or sys.platform == 'cygwin'
IsWindows == host.os_name = "nt" \/ host.sys_platform = "cygwin"
\* is_cygwin_env, lines 748-750, and is_msys2_env, lines 751-757
is_cygwin_env == host.cygdrive
is_msys2_env == host.msys2

\* self.current_output with "\n" appended unless it is empty (the idiom of
\* the commands that add input)
Newline(s) ==
    IF s.current_output # "" THEN s.current_output \o "\n" ELSE s.current_output

(***************************************************************************)
(* The process executor, lines 113-179.  The child process and the file    *)
(* system are outside the program: what they answer is drawn from the      *)
(* sets below.                                                             *)
(***************************************************************************)
\* what the child writes to a captured stdout
ChildOutputs == {"", "o\n"}
\* how Popen and communicate end: exit status 0, another exit status,
\* FileNotFoundError, OSError, any other exception
ChildEnds == {"exit0", "exit1", "FileNotFoundError", "OSError", "Exception"}

\* get_pipe_target: with mode ModeWrite, os.makedirs and open can raise, and
\* os.makedirs("") always does
get_pipe_target(mode, path) ==
    IF mode = ModeWrite
    THEN IF \E p \in path : os_path_dirname(p) = "" THEN {"raise"} ELSE {"file", "raise"}
    ELSE {"nofile"}

\* exec_cmd: the set of (result, output) it can return, and raised when an
\* exception of get_pipe_target leaves it.  spawned is the argument vector
\* handed to Popen, if Popen was called; open counts the files that
\* get_pipe_target opened and that are not closed when exec_cmd is left:
\* the finally clause of lines 167-177 closes both, but the second
\* get_pipe_target (line 129) runs before the try, so when it raises the
\* file the first one opened stays open.  The diagnostic of a failed child
\* is shortened to its fixed words and the command.
exec_cmd(s, cmd, cargs) ==
    LET so == get_pipe_target(s.stdout_mode, s.stdout_path)
        se == get_pipe_target(s.stderr_mode, s.stderr_path)
        captured == s.stdout_mode = ModeProcess \/ s.stderr_mode = ModeProcess
        outs == IF s.stdout_mode = ModeProcess THEN ChildOutputs ELSE {""}
        message == "Error executing command: " \o cmd \o " returned 1"
        Raised(n) ==
            [result |-> UndefinedError, output |-> "", raised |-> TRUE,
             spawned |-> <<>>, open |-> n]
        Ended(r, output) ==
            [result |-> r, output |-> output, raised |-> FALSE,
             spawned |-> <<<<cmd>> \o cargs>>, open |-> 0]
        End(e, out) ==
            LET output == IF captured THEN removesuffix(out, "\n") ELSE ""
            IN CASE e = "exit0" -> Ended(Ok, output)
                 [] e = "exit1" ->
                      Ended(CommandError,
                            IF s.stderr_mode = ModeProcess
                            THEN output \o "\n" \o message ELSE output)
                 [] e = "FileNotFoundError" -> Ended(CommandNotFoundError, "")
                 [] e = "OSError" -> Ended(CommandOSError, "")
                 [] OTHER -> Ended(CommandError, "")
    IN (IF "raise" \in so THEN {Raised(0)} ELSE {})
       \cup (IF so # {"raise"} /\ "raise" \in se
             THEN {Raised(IF "file" \in so THEN 1 ELSE 0)} ELSE {})
       \cup (IF so # {"raise"} /\ se # {"raise"}
             THEN {End(e, out) : e \in ChildEnds, out \in outs} ELSE {})

(***************************************************************************)
(* Utilities, lines 182-265.                                               *)
(***************************************************************************)
set_env(s, e) ==
    IF contains(e, "=")
    THEN LET i == find(e, "=")
             key == SubSeq(e, 1, i - 1)
             value == SubSeq(e, i + 1, Len(e))
         IN {Ret([s EXCEPT !.env = [k \in DOMAIN s.env \cup {key} |->
                                       IF k = key THEN value ELSE s.env[k]]], Ok)}
    ELSE {Ret(s, InvalidEnvValue)}

\* a set_stdout that leaves the path of an earlier file in place
set_stdout_keeps_path(s, mode) ==
    IF mode \in {ModeProcess, ModePrint, ModeIgnore}
    THEN {Ret([s EXCEPT !.stdout_mode = mode], Ok)}
    ELSE {Ret([s EXCEPT !.stdout_mode = ModeWrite, !.stdout_path = Some(mode)], Ok)}

set_stdout(s, mode) ==
    IF mode \in {ModeProcess, ModePrint, ModeIgnore}
    THEN {Ret([s EXCEPT !.stdout_mode = mode, !.stdout_path = None], Ok)}
    ELSE {Ret([s EXCEPT !.stdout_mode = ModeWrite, !.stdout_path = Some(mode)], Ok)}

set_stderr(s, mode) ==
    IF mode \in {ModeProcess, ModePrint, ModeIgnore}
    THEN {Ret([s EXCEPT !.stderr_mode = mode, !.stderr_path = None], Ok)}
    ELSE {Ret([s EXCEPT !.stderr_mode = ModeWrite, !.stderr_path = Some(mode)], Ok)}

\* a set_exit that falls back to stopping when it rejects the value
set_exit_resets(s, mode) ==
    LET m == lower(strip(mode))
    IN IF m \notin {"true", "false"}
       THEN {Ret([s EXCEPT !.stop_on_error = TRUE], InvalidOutputMode)}
       ELSE {Ret([s EXCEPT !.stop_on_error = (m # "false")], Ok)}

set_exit(s, mode) ==
    LET m == lower(strip(mode))
    IN IF m \notin {"true", "false"}
       THEN {Ret(s, InvalidOutputMode)}
       ELSE {Ret([s EXCEPT !.stop_on_error = (m # "false")], Ok)}

print_help(s) == {[Ret(s, Ok) EXCEPT !.help = TRUE]}

\* the first declarations of platform_exec and platform_open (lines
\* 245-265), which the second declarations replace in the class dictionary
platform_exec_first(s) ==
    {Ret([s EXCEPT !.current_output =
             @ \o (IF IsWindows THEN ""
                   ELSE IF host.sys_platform = "darwin" THEN "open"
                   ELSE "")], Ok)}

platform_open_first(s) ==
    {Ret([s EXCEPT !.current_output =
             @ \o (IF IsWindows THEN "start \"\""
                   ELSE IF host.sys_platform = "darwin" THEN "open"
                   ELSE "xdg-open")], Ok)}

\* the second declarations of platform_exec and platform_open (lines
\* 320-346), which are the ones the class dictionary holds
platform_exec(s) ==
    {Ret([s EXCEPT !.current_output =
             Newline(s) \o (IF IsWindows THEN ".exe" ELSE "")], Ok)}

platform_open(s) == {Ret([s EXCEPT !.current_output = Newline(s)], Ok)}

(***************************************************************************)
(* Inputs, lines 269-398.                                                  *)
(***************************************************************************)
\* run_command(self, command, *args): called with no parameter it raises
\* TypeError
run_command(s, p) ==
    IF Len(p) = 0 THEN {Raise(s)}
    ELSE {IF e.raised THEN Raise([s EXCEPT !.open_files = @ + e.open])
          ELSE Ret([s EXCEPT !.current_output = Newline(s) \o e.output,
                             !.spawned = @ \o e.spawned],
                   IF ~s.stop_on_error THEN Ok ELSE e.result)
          : e \in exec_cmd(s, p[1], Tail(p))}

append(s, input) ==
    {Ret([s EXCEPT !.current_output =
             Newline(s) \o replace(replace(replace(input, "\\n", "\n"),
                                           "\\t", "\t"), "\\r", "\r")], Ok)}

\* what a file that --read opens holds
FileContents == {"", "f\ng\n"}

read(s, path) ==
    {Ret([s EXCEPT !.current_output = Newline(s) \o c], Ok) : c \in FileContents}
    \cup {Ret([s EXCEPT !.current_output = Newline(s)],
              IF s.stop_on_error THEN IOError ELSE Ok)}

platform(s) ==
    {Ret([s EXCEPT !.current_output =
             Newline(s) \o (IF IsWindows THEN "Windows"
                            ELSE IF host.sys_platform = "linux" THEN "Linux"
                            ELSE IF host.sys_platform = "darwin" THEN "MacOS"
                            ELSE "Unknown")], Ok)}

\* the version a successful cygcheck or mingw-get reports
ToolVersions == {"3.4.6"}

cygwin_version(s) ==
    IF ~is_cygwin_env THEN {Ret(s, Not)}
    ELSE {Ret(s, Not)}
         \cup {Ret([s EXCEPT !.current_output = Newline(s) \o v], Ok) : v \in ToolVersions}

mingw_version(s) ==
    IF ~is_msys2_env THEN {Ret(s, Not)}
    ELSE {Ret(s, Not)}
         \cup {Ret([s EXCEPT !.current_output = Newline(s) \o v], Ok) : v \in ToolVersions}

\* str(int(datetime.now().timestamp()))
Timestamps == {"1762300800"}

timestamp(s) ==
    {Ret([s EXCEPT !.current_output = Newline(s) \o t], Ok) : t \in Timestamps}

(***************************************************************************)
(* Output commands, lines 402-435.                                         *)
(***************************************************************************)
\* write_to_file: creating the directory or writing the file succeeds or
\* fails with OSError; the buffer is only read
write_to_file(s, path, app) == {Ret(s, Ok), Ret(s, IOError)}

write_file(s, path) == write_to_file(s, path, FALSE)

append_file(s, path) == write_to_file(s, path, TRUE)

print(s) == {Ret(s, Ok)}

(***************************************************************************)
(* The regular expressions of module re, on the patterns the model draws:  *)
(* literal characters and ".", after an optional "^" and before an         *)
(* optional "$", of which one run may stand in the group "(?P<value>" ...  *)
(* ")".  A pattern with unbalanced parentheses, an unclosed "[" or a       *)
(* leading quantifier does not compile (re.error).  The patterns drawn for *)
(* --sub have no groups, so a group reference in a replacement is re.error *)
(* too.                                                                    *)
(***************************************************************************)
count(s, c) == Cardinality({i \in 1..Len(s) : Chr(s, i) = c})

\* a compiler that accepts every pattern
re_error_never(p) == FALSE

re_error(p) ==
    \/ count(p, "(") # count(p, ")")
    \/ count(p, "[") # count(p, "]")
    \/ p # "" /\ Chr(p, 1) \in {"*", "+", "?"}

re_atoms(p) ==
    LET q == removesuffix(removeprefix(p, "^"), "$")
    IN IF contains(q, "(?P<value>") THEN replace(replace(q, "(?P<value>", ""), ")", "")
       ELSE q

\* the pattern matches line at position i (1-based; Len(line) + 1 is the end)
re_match_at(p, line, i) ==
    LET atoms == re_atoms(p)
        n == Len(atoms)
    IN /\ startswith(p, "^") => i = 1
       /\ i + n - 1 <= Len(line)
       /\ endswith(p, "$") => i + n - 1 = Len(line)
       /\ \A k \in 1..n : Chr(atoms, k) = "." \/ Chr(atoms, k) = Chr(line, i + k - 1)

re_match_len(p) == Len(re_atoms(p))

\* compiled_pattern.search(line)
re_search(p, line) == \E i \in 1..(Len(line) + 1) : re_match_at(p, line, i)

\* match.group("value") of the leftmost match, for a pattern with that
\* group on a line it matches
re_group_value(p, line) ==
    LET q == removeprefix(p, "^")
        before == find(q, "(?P<value>") - 1
        inside == find(SubSeq(q, before + Len("(?P<value>") + 1, Len(q)), ")") - 1
        i == Min({j \in 1..(Len(line) + 1) : re_match_at(p, line, j)})
    IN SubSeq(line, i + before, i + before + inside - 1)

\* the replacement template: "\" before a digit is a group reference
re_template_error(repl) ==
    \E i \in 1..(Len(repl) - 1) :
        Chr(repl, i) = "\\" /\ contains(Digits, Chr(repl, i + 1))

re_template(repl) ==
    replace(replace(replace(repl, "\\n", "\n"), "\\t", "\t"), "\\r", "\r")

\* re.sub(pattern, repl, line) from position i on
RECURSIVE re_sub_from(_, _, _, _)
re_sub_from(p, repl, line, i) ==
    IF i > Len(line) + 1 THEN ""
    ELSE IF re_match_at(p, line, i)
    THEN IF re_match_len(p) = 0
         THEN re_template(repl) \o Chr(line, i) \o re_sub_from(p, repl, line, i + 1)
         ELSE re_template(repl) \o re_sub_from(p, repl, line, i + re_match_len(p))
    ELSE Chr(line, i) \o re_sub_from(p, repl, line, i + 1)

re_sub(p, repl, line) == re_sub_from(p, repl, line, 1)

\* re.split("[ \t]+", line)
RECURSIVE re_split_blank(_)
re_split_blank(line) ==
    LET I == {i \in 1..Len(line) : Chr(line, i) \in {" ", "\t"}}
    IN IF I = {} THEN <<line>>
       ELSE LET i == Min(I)
                J == {j \in i..Len(line) : Chr(line, j) \notin {" ", "\t"}}
            IN IF J = {} THEN <<SubSeq(line, 1, i - 1), "">>
               ELSE <<SubSeq(line, 1, i - 1)>>
                    \o re_split_blank(SubSeq(line, Min(J), Len(line)))

(***************************************************************************)
(* Line-by-line processing, lines 439-534.                                 *)
(***************************************************************************)
\* the loop of for_each_line over the lines left, new_lines collected so far
\* a loop that hands the command its fixed arguments without the line
RECURSIVE for_each_loop_no_line(_, _, _, _, _)
for_each_loop_no_line(s, cmd, cargs, lines_left, new_lines) ==
    IF lines_left = <<>>
    THEN {Ret([s EXCEPT !.current_output = join("\n", new_lines)], Ok)}
    ELSE UNION {IF e.raised THEN {Raise([s EXCEPT !.open_files = @ + e.open])}
                ELSE IF e.result # Ok
                THEN {Ret([s EXCEPT !.spawned = @ \o e.spawned], e.result)}
                ELSE for_each_loop_no_line([s EXCEPT !.spawned = @ \o e.spawned],
                                           cmd, cargs, Tail(lines_left),
                                           Append(new_lines, e.output))
                : e \in exec_cmd(s, cmd, cargs)}

RECURSIVE for_each_loop(_, _, _, _, _)
for_each_loop(s, cmd, cargs, lines_left, new_lines) ==
    IF lines_left = <<>>
    THEN {Ret([s EXCEPT !.current_output = join("\n", new_lines)], Ok)}
    ELSE UNION {IF e.raised THEN {Raise([s EXCEPT !.open_files = @ + e.open])}
                ELSE IF e.result # Ok
                THEN {Ret([s EXCEPT !.spawned = @ \o e.spawned], e.result)}
                ELSE for_each_loop([s EXCEPT !.spawned = @ \o e.spawned], cmd, cargs,
                                   Tail(lines_left), Append(new_lines, e.output))
                : e \in exec_cmd(s, cmd, Append(cargs, Head(lines_left)))}

\* for_each_line(self, command, *args): called with no parameter it raises
\* TypeError
for_each_line(s, p) ==
    IF Len(p) = 0 THEN {Raise(s)}
    ELSE for_each_loop(s, p[1], Tail(p), splitlines(s.current_output), <<>>)

\* --include without the rule that a line_to of 0 is the number of lines
lines_to_zero(s, line_from, line_to) ==
    LET ls == splitlines(s.current_output)
    IN {Ret([s EXCEPT !.current_output =
                join("\n", SubSeq(ls, SliceIndex(line_from, Len(ls)) + 1,
                                  SliceIndex(line_to, Len(ls))))], Ok)}

\* --include
lines(s, line_from, line_to) ==
    LET ls == splitlines(s.current_output)
        to == IF line_to = 0 THEN Len(ls) ELSE line_to
    IN {Ret([s EXCEPT !.current_output =
                join("\n", SubSeq(ls, SliceIndex(line_from, Len(ls)) + 1,
                                  SliceIndex(to, Len(ls))))], Ok)}

\* --exclude
remove_lines(s, line_from, line_to) ==
    LET ls == splitlines(s.current_output)
        to == IF line_to = 0 THEN Len(ls) ELSE line_to
    IN {Ret([s EXCEPT !.current_output =
                join("\n", SubSeq(ls, 1, SliceIndex(line_from, Len(ls)))
                           \o SubSeq(ls, SliceIndex(to, Len(ls)) + 1, Len(ls)))], Ok)}

to_lower(s) == {Ret([s EXCEPT !.current_output = lower(s.current_output)], Ok)}

to_upper(s) == {Ret([s EXCEPT !.current_output = upper(s.current_output)], Ok)}

filter_lines(s, pattern) ==
    IF re_error(pattern) THEN {Ret(s, RegexError)}
    ELSE {Ret([s EXCEPT !.current_output =
                  join("\n", SelectSeq(splitlines(s.current_output),
                                       LAMBDA l : re_search(pattern, l)))], Ok)}

remove_lines_regex(s, pattern) ==
    IF re_error(pattern) THEN {Ret(s, RegexError)}
    ELSE {Ret([s EXCEPT !.current_output =
                  join("\n", SelectSeq(splitlines(s.current_output),
                                       LAMBDA l : ~re_search(pattern, l)))], Ok)}

remove_empty_lines(s) ==
    {Ret([s EXCEPT !.current_output =
             join("\n", SelectSeq(splitlines(s.current_output),
                                  LAMBDA l : strip(l) # ""))], Ok)}

\* --sub: re.sub parses the replacement at its first call, so a bad
\* replacement raises re.error, which nothing catches, once there is a line
regex_replace(s, pattern, replacements) ==
    LET ls == splitlines(s.current_output)
    IN IF re_error(pattern) THEN {Ret(s, RegexError)}
       ELSE IF ls # <<>> /\ re_template_error(replacements) THEN {Raise(s)}
       ELSE {Ret([s EXCEPT !.current_output =
                     join("\n", [i \in 1..Len(ls) |->
                                    re_sub(pattern, replacements, ls[i])])], Ok)}

(***************************************************************************)
(* --sort, lines 536-624.                                                  *)
(***************************************************************************)
\* the ASCII characters in code point order, for str < str (the grave
\* accent, which a TLA+ string cannot hold, is left out)
CodeOrder ==
    "\t\n\f\r !\"#$%&'()*+,-./0123456789:;<=>?@ABCDEFGHIJKLMNOPQRSTUVWXYZ[\\]^_abcdefghijklmnopqrstuvwxyz{|}~"

Ord(c) == find(CodeOrder, c)

RECURSIVE str_less(_, _)
str_less(a, b) ==
    IF b = "" THEN FALSE
    ELSE IF a = "" THEN TRUE
    ELSE IF Chr(a, 1) = Chr(b, 1) THEN str_less(SubSeq(a, 2, Len(a)), SubSeq(b, 2, Len(b)))
    ELSE Ord(Chr(a, 1)) < Ord(Chr(b, 1))

\* int(value, 16) on hexadecimal digits with an optional sign
HexDigits == "0123456789abcdef"

IsHexDigits(s) ==
    s # "" /\ \A i \in 1..Len(s) : contains(HexDigits, lower(Chr(s, i)))

hex_ok(s) ==
    IF s # "" /\ Chr(s, 1) \in {"-", "+"}
    THEN IsHexDigits(SubSeq(s, 2, Len(s)))
    ELSE IsHexDigits(s)

RECURSIVE HexValue(_)
HexValue(s) ==
    IF s = "" THEN 0
    ELSE 16 * HexValue(SubSeq(s, 1, Len(s) - 1))
         + (find(HexDigits, lower(Chr(s, Len(s)))) - 1)

hex(s) ==
    IF Chr(s, 1) = "-" THEN 0 - HexValue(SubSeq(s, 2, Len(s)))
    ELSE IF Chr(s, 1) = "+" THEN HexValue(SubSeq(s, 2, Len(s)))
    ELSE HexValue(s)

\* Sort and sum keys: a number (inf = 1 for float("inf"), -1 for
\* float("-inf")), a string, or the exception the key function raised.
\* float(value) is modelled on the decimal integers and the spellings of
\* the two infinities (the model draws no fractions and no "nan").
NumKey(n) == [t |-> "num", inf |-> 0, n |-> n, s |-> ""]
InfKey(sign) == [t |-> "num", inf |-> sign, n |-> 0, s |-> ""]
StrKey(x) == [t |-> "str", inf |-> 0, n |-> 0, s |-> x]
ErrKey == [t |-> "err", inf |-> 0, n |-> 0, s |-> ""]

\* key_func(value) for the key functions the flags select
key_func(kind, value) ==
    CASE kind = "float" ->
           IF int_ok(strip(value)) THEN NumKey(int(strip(value)))
           ELSE IF lower(strip(value)) \in {"inf", "+inf", "infinity", "+infinity"}
           THEN InfKey(1)
           ELSE IF lower(strip(value)) \in {"-inf", "-infinity"} THEN InfKey(0 - 1)
           ELSE ErrKey
      [] kind = "int" -> IF int_ok(strip(value)) THEN NumKey(int(strip(value))) ELSE ErrKey
      [] kind = "int16" -> IF hex_ok(strip(value)) THEN NumKey(hex(strip(value))) ELSE ErrKey
      [] kind = "strip" -> StrKey(strip(value))
      [] OTHER -> StrKey(value)

\* a < b of Python on two keys of one type
key_less(a, b) ==
    IF a.t = "str" THEN str_less(a.s, b.s)
    ELSE IF a.inf # b.inf THEN a.inf < b.inf
    ELSE a.inf = 0 /\ a.n < b.n

\* the column a "column=" flag selects: an index (int(flag) - 1), a compiled
\* pattern, or the failure to compile one
column_of(flag) ==
    LET f == removeprefix(flag, "column=")
        g == replace(replace(replace(f, "\\t", "\t"), "\\n", "\n"), "\\r", "\r")
        pat == removeprefix(removesuffix(removeprefix(removesuffix(g, "\""), "\""), "'"), "'")
    IN IF int_ok(strip(f)) THEN [kind |-> "int", index |-> int(strip(f)) - 1, pattern |-> ""]
       ELSE IF re_error(pat) THEN [kind |-> "error", index |-> 0, pattern |-> pat]
       ELSE [kind |-> "re", index |-> 0, pattern |-> pat]

\* str.split(",")
RECURSIVE split_comma(_)
split_comma(s) ==
    LET i == find(s, ",")
    IN IF i = 0 THEN <<s>>
       ELSE <<SubSeq(s, 1, i - 1)>> \o split_comma(SubSeq(s, i + 1, Len(s)))

\* the loop over the sort flags, lines 545-578, from the settings c
RECURSIVE sort_flags(_, _)
sort_flags(flags, c) ==
    IF flags = <<>> THEN c
    ELSE LET flag == Head(flags)
             rest == Tail(flags)
         IN CASE flag = "none" -> sort_flags(rest, c)
              [] flag = "desc" -> sort_flags(rest, [c EXCEPT !.reverse = TRUE])
              [] flag = "asc" -> sort_flags(rest, [c EXCEPT !.reverse = FALSE])
              [] flag \in {"float", "int", "int16"} ->
                   sort_flags(rest, [c EXCEPT !.use_numeric = TRUE, !.key_func = flag])
              [] flag = "strip" -> sort_flags(rest, [c EXCEPT !.key_func = "strip"])
              [] flag = "ignore_error_lines" ->
                   sort_flags(rest, [c EXCEPT !.ignore_error_lines = TRUE])
              [] startswith(flag, "column=") ->
                   IF column_of(flag).kind = "error"
                   THEN [c EXCEPT !.error = InvalidSortColumn]
                   ELSE sort_flags(rest, [c EXCEPT !.column = column_of(flag)])
              [] OTHER -> [c EXCEPT !.error = InvalidSortFlag]

\* get_value of sort, lines 580-611: the key of a line, ErrKey when it raises.
\* A negative index counts from the last field.  On a pattern without the
\* group named value, match.group("value") raises.
sort_get_value(c, line) ==
    LET split_line == re_split_blank(line)
        n == Len(split_line)
        fallback == IF c.ignore_error_lines
                    THEN IF c.use_numeric
                         THEN InfKey(IF c.reverse THEN 0 - 1 ELSE 1)
                         ELSE StrKey("")
                    ELSE ErrKey
    IN IF c.column.kind = "int"
       THEN IF c.column.index >= n THEN fallback
            ELSE IF c.column.index < 0 - n THEN ErrKey
            ELSE key_func(c.key_func,
                          split_line[IF c.column.index < 0
                                     THEN n + c.column.index + 1
                                     ELSE c.column.index + 1])
       ELSE IF re_search(c.column.pattern, line)
               /\ contains(c.column.pattern, "(?P<value>")
               /\ key_func(c.key_func, re_group_value(c.column.pattern, line)) # ErrKey
       THEN key_func(c.key_func, re_group_value(c.column.pattern, line))
       ELSE fallback

\* an insertion that puts a line in front of the lines of equal key
RECURSIVE sort_insert_unstable(_, _, _, _)
sort_insert_unstable(sorted, line, c, i) ==
    IF i = 0 THEN <<line>> \o sorted
    ELSE IF (IF c.reverse
             THEN ~key_less(sort_get_value(c, line), sort_get_value(c, sorted[i]))
             ELSE ~key_less(sort_get_value(c, sorted[i]), sort_get_value(c, line)))
    THEN sort_insert_unstable(sorted, line, c, i - 1)
    ELSE SubSeq(sorted, 1, i) \o <<line>> \o SubSeq(sorted, i + 1, Len(sorted))

\* sorted(lines, key, reverse): stable in both directions
RECURSIVE sort_insert(_, _, _, _)
sort_insert(sorted, line, c, i) ==
    IF i = 0 THEN <<line>> \o sorted
    ELSE IF (IF c.reverse
             THEN key_less(sort_get_value(c, sorted[i]), sort_get_value(c, line))
             ELSE key_less(sort_get_value(c, line), sort_get_value(c, sorted[i])))
    THEN sort_insert(sorted, line, c, i - 1)
    ELSE SubSeq(sorted, 1, i) \o <<line>> \o SubSeq(sorted, i + 1, Len(sorted))

\* sorted(lines, key) without the reverse argument
RECURSIVE sorted_lines_ascending(_, _)
sorted_lines_ascending(ls, c) ==
    IF ls = <<>> THEN <<>>
    ELSE LET front == sorted_lines_ascending(SubSeq(ls, 1, Len(ls) - 1), c)
         IN sort_insert(front, ls[Len(ls)], [c EXCEPT !.reverse = FALSE], Len(front))

RECURSIVE sorted_lines(_, _)
sorted_lines(ls, c) ==
    IF ls = <<>> THEN <<>>
    ELSE LET front == sorted_lines(SubSeq(ls, 1, Len(ls) - 1), c)
         IN sort_insert(front, ls[Len(ls)], c, Len(front))

\* a --sort that reorders the lines before the validation pass has
\* looked at them
sort_unvalidated(s, flags) ==
    LET c == sort_flags(split_comma(flags),
                        [column |-> [kind |-> "int", index |-> 0, pattern |-> ""],
                         reverse |-> FALSE, ignore_error_lines |-> FALSE,
                         use_numeric |-> FALSE, key_func |-> "id", error |-> Ok])
        ls == splitlines(s.current_output)
    IN IF c.error # Ok THEN {Ret(s, c.error)}
       ELSE {Ret([s EXCEPT !.current_output = join("\n", sorted_lines(ls, c))],
                 IF \E i \in 1..Len(ls) : sort_get_value(c, ls[i]).t = "err"
                 THEN InvalidSortValue ELSE Ok)}

sort(s, flags) ==
    LET c == sort_flags(split_comma(flags),
                        [column |-> [kind |-> "int", index |-> 0, pattern |-> ""],
                         reverse |-> FALSE, ignore_error_lines |-> FALSE,
                         use_numeric |-> FALSE, key_func |-> "id", error |-> Ok])
        ls == splitlines(s.current_output)
        types == {sort_get_value(c, ls[i]).t : i \in 1..Len(ls)}
    IN IF c.error # Ok THEN {Ret(s, c.error)}
       ELSE IF "err" \in types THEN {Ret(s, InvalidSortValue)}
       \* str < float raises TypeError in sorted()
       ELSE IF Cardinality(types) > 1 THEN {Raise(s)}
       ELSE {Ret([s EXCEPT !.current_output = join("\n", sorted_lines(ls, c))], Ok)}

\* --unique, lines 626-635: unique_lines[-1] of the empty list raises
\* IndexError at the first line
unique(s) ==
    IF splitlines(s.current_output) = <<>>
    THEN {Ret([s EXCEPT !.current_output = ""], Ok)}
    ELSE {Raise(s)}

RECURSIVE reversed(_)
reversed(seq) == IF seq = <<>> THEN <<>> ELSE Append(reversed(Tail(seq)), Head(seq))

reverse_lines(s) ==
    {Ret([s EXCEPT !.current_output = join("\n", reversed(splitlines(s.current_output)))], Ok)}

first_line(s) ==
    LET ls == splitlines(s.current_output)
    IN {Ret([s EXCEPT !.current_output = IF Len(ls) > 0 THEN ls[1] ELSE ""], Ok)}

last_line(s) ==
    LET ls == splitlines(s.current_output)
    IN {Ret([s EXCEPT !.current_output = IF Len(ls) > 0 THEN ls[Len(ls)] ELSE ""], Ok)}

(***************************************************************************)
(* --sum, lines 665-737.                                                   *)
(***************************************************************************)
\* the loop over the sum flags, lines 673-701.  out_func's lambda for
\* "float=" reads the loop variable flag when it is called, after the loop:
\* c.flag is that variable.
RECURSIVE sum_flags(_, _)
sum_flags(flags, c) ==
    IF flags = <<>> THEN c
    ELSE LET flag == Head(flags)
             rest == Tail(flags)
             d == [c EXCEPT !.flag = flag]
         IN CASE flag \in {"none", "float"} -> sum_flags(rest, d)
              [] flag = "int16" ->
                   sum_flags(rest, [d EXCEPT !.key_func = "int16", !.out_func = "x"])
              [] flag = "int" ->
                   sum_flags(rest, [d EXCEPT !.key_func = "int", !.out_func = "d"])
              [] startswith(flag, "float=") ->
                   sum_flags(rest, [d EXCEPT !.out_func = ".f",
                                             !.flag = removeprefix(flag, "float=")])
              [] flag = "ignore_error_lines" ->
                   sum_flags(rest, [d EXCEPT !.ignore_error_lines = TRUE])
              [] startswith(flag, "column=") ->
                   IF column_of(flag).kind = "error"
                   THEN [d EXCEPT !.error = InvalidSortColumn]
                   ELSE sum_flags(rest,
                          [d EXCEPT !.column = column_of(flag),
                                    !.flag = IF column_of(flag).kind = "int"
                                             THEN removeprefix(flag, "column=")
                                             ELSE replace(replace(replace(
                                                    removeprefix(flag, "column="),
                                                    "\\t", "\t"), "\\n", "\n"), "\\r", "\r")])
              [] OTHER -> [d EXCEPT !.error = InvalidSumFlag]

\* get_value of sum_lines, lines 702-724
sum_get_value(c, line) ==
    LET split_line == re_split_blank(line)
        n == Len(split_line)
        fallback == IF c.ignore_error_lines THEN NumKey(0) ELSE ErrKey
    IN IF c.column.kind = "int"
       THEN IF c.column.index >= n THEN fallback
            ELSE IF c.column.index < 0 - n THEN ErrKey
            ELSE key_func(c.key_func,
                          split_line[IF c.column.index < 0
                                     THEN n + c.column.index + 1
                                     ELSE c.column.index + 1])
       ELSE IF re_search(c.column.pattern, line)
               /\ contains(c.column.pattern, "(?P<value>")
               /\ key_func(c.key_func, re_group_value(c.column.pattern, line)) # ErrKey
       THEN key_func(c.key_func, re_group_value(c.column.pattern, line))
       ELSE fallback

\* a sum that is the value of the last line alone
sum_values_last(c, ls) ==
    IF ls = <<>> THEN 0 ELSE sum_get_value(c, ls[Len(ls)]).n

RECURSIVE sum_values(_, _)
sum_values(c, ls) ==
    IF ls = <<>> THEN 0 ELSE sum_get_value(c, Head(ls)).n + sum_values(c, Tail(ls))

RECURSIVE zeros(_)
zeros(n) == IF n <= 0 THEN "" ELSE "0" \o zeros(n - 1)

\* lower-case hexadecimal of format "x"
RECURSIVE NatHex(_)
NatHex(n) ==
    IF n < 16 THEN Chr(HexDigits, n + 1)
    ELSE NatHex(n \div 16) \o Chr(HexDigits, (n % 16) + 1)

\* out_func(value) on a whole number: "f" with six decimals, "d", "x", and
\* ".f" with the precision the variable flag holds
out_func(c, value) ==
    CASE c.out_func = "f" -> str(value) \o "." \o zeros(6)
      [] c.out_func = "d" -> str(value)
      [] c.out_func = "x" -> IF value < 0 THEN "-" \o NatHex(0 - value) ELSE NatHex(value)
      [] OTHER -> IF int(c.flag) = 0 THEN str(value)
                  ELSE str(value) \o "." \o zeros(int(c.flag))

sum_lines(s, flags) ==
    LET c == sum_flags(split_comma(flags),
                       [column |-> [kind |-> "int", index |-> 0, pattern |-> ""],
                        ignore_error_lines |-> FALSE, key_func |-> "float",
                        out_func |-> "f", flag |-> "", error |-> Ok])
        ls == splitlines(s.current_output)
    IN IF c.error # Ok THEN {Ret(s, c.error)}
       ELSE IF \E i \in 1..Len(ls) : sum_get_value(c, ls[i]).t = "err"
       THEN {Ret(s, InvalidSumValue)}
       \* a precision that is no number: ValueError of the format
       ELSE IF c.out_func = ".f" /\ ~IsDigits(c.flag) THEN {Raise(s)}
       \* a sum with an infinite term: "inf", "-inf", or "nan" for both signs
       ELSE IF \E i \in 1..Len(ls) : sum_get_value(c, ls[i]).inf # 0
       THEN {Ret([s EXCEPT !.current_output =
                     IF \A i \in 1..Len(ls) : sum_get_value(c, ls[i]).inf >= 0 THEN "inf"
                     ELSE IF \A i \in 1..Len(ls) : sum_get_value(c, ls[i]).inf <= 0
                     THEN "-inf" ELSE "nan"], Ok)}
       ELSE {Ret([s EXCEPT !.current_output = out_func(c, sum_values(c, ls))], Ok)}

count_lines(s) ==
    {Ret([s EXCEPT !.current_output = str(Len(splitlines(s.current_output)))], Ok)}

(***************************************************************************)
(* File system commands, lines 748-934.  What the file system answers      *)
(* (whether a path exists, whether a call fails) is outside the program:   *)
(* every answer is possible.                                               *)
(***************************************************************************)
IsLetters(x) ==
    x # "" /\ \A i \in 1..Len(x) :
                 contains(LowerCase, Chr(x, i)) \/ contains(UpperCase, Chr(x, i))

\* win_path_re, line 87: None, or the groups drive and path
win_path_re(line) ==
    LET i == find(line, ":")
    IN IF i >= 2 /\ IsLetters(SubSeq(line, 1, i - 1)) /\ Chr(line, i + 1) \in {"\\", "/"}
       THEN Some([drive |-> SubSeq(line, 1, i - 1), path |-> SubSeq(line, i + 2, Len(line))])
       ELSE None

\* msys2_path_re, line 89
msys2_path_re(line) ==
    LET rest == SubSeq(line, 2, Len(line))
        i == find(rest, "/")
    IN IF startswith(line, "/") /\ i >= 2 /\ IsLetters(SubSeq(rest, 1, i - 1))
       THEN Some([drive |-> SubSeq(rest, 1, i - 1), path |-> SubSeq(rest, i + 1, Len(rest))])
       ELSE None

\* cygwin_path_re, line 88
cygwin_path_re(line) ==
    IF startswith(line, "/cygdrive/")
    THEN msys2_path_re(SubSeq(line, Len("/cygdrive/"), Len(line)))
    ELSE None

\* the elements of seq at the indices in M, in order
RECURSIVE pick(_, _)
pick(seq, M) ==
    IF seq = <<>> THEN <<>>
    ELSE pick(SubSeq(seq, 1, Len(seq) - 1), M)
         \o (IF Len(seq) \in M THEN <<seq[Len(seq)]>> ELSE <<>>)

\* the body of env_path's loop for one line: the lines it appends
env_path_line(raw) ==
    LET line == replace(strip(raw), "\\", "/")
        m == win_path_re(line)
    IN IF m = None THEN <<>>
       ELSE LET g == CHOOSE x \in m : TRUE
                converted == IF is_cygwin_env THEN "/cygdrive/" \o lower(g.drive) \o "/" \o g.path
                             ELSE IF is_msys2_env THEN "/" \o lower(g.drive) \o "/" \o g.path
                             ELSE line
            IN <<removesuffix(replace(converted, "//", "/"), "/")>>

RECURSIVE flat_map_env_path(_)
flat_map_env_path(ls) ==
    IF ls = <<>> THEN <<>> ELSE env_path_line(Head(ls)) \o flat_map_env_path(Tail(ls))

env_path(s) ==
    IF IsWindows
    THEN {Ret([s EXCEPT !.current_output =
                  join("\n", flat_map_env_path(splitlines(s.current_output)))], Ok)}
    ELSE {Ret(s, Ok)}

\* the body of platform_path's loop for one line
platform_path_line(raw) ==
    LET line == replace(strip(raw), "\\", "/")
        m == IF is_cygwin_env THEN cygwin_path_re(line)
             ELSE IF is_msys2_env THEN msys2_path_re(line)
             ELSE None
    IN IF m = None THEN line
       ELSE LET g == CHOOSE x \in m : TRUE IN lower(g.drive) \o ":/" \o g.path

platform_path(s) ==
    LET ls == splitlines(s.current_output)
    IN IF IsWindows
       THEN {Ret([s EXCEPT !.current_output =
                     join("\n", [i \in 1..Len(ls) |-> platform_path_line(ls[i])])], Ok)}
       ELSE {Ret(s, Ok)}

shell_list(s) ==
    {Ret([s EXCEPT !.current_output =
             join(IF host.os_name = "nt" /\ ~is_cygwin_env THEN ";" ELSE ":",
                  splitlines(s.current_output))], Ok)}

dirname(s) ==
    LET ls == splitlines(s.current_output)
    IN {Ret([s EXCEPT !.current_output =
                join("\n", [i \in 1..Len(ls) |-> os_path_dirname(strip(ls[i]))])], Ok)}

basename(s) ==
    LET ls == splitlines(s.current_output)
    IN {Ret([s EXCEPT !.current_output =
                join("\n", [i \in 1..Len(ls) |-> os_path_basename(strip(ls[i]))])], Ok)}

touch(s, path) == {Ret(s, Ok), Ret(s, IOError)}

\* symlink: when os.symlink fails the copy that replaces it can raise, and
\* nothing catches that
symlink(s, target, link_name) == {Ret(s, Ok), Raise(s)}

ensure_dir_explicit(s, path) == {Ret(s, Ok), Ret(s, IOError)}

\* ensure_dirs, lines 869-881: the return of line 881 is inside the loop and
\* inside the if, so the first line that names a missing directory ends the
\* handler, and a buffer with no such line falls off the end: None
ensure_dirs(s, path) ==
    LET ls == splitlines(s.current_output)
    IN {Ret(s, NoneResult)}
       \cup (IF \E i \in 1..Len(ls) : strip(ls[i]) # ""
             THEN {Ret(s, Ok), Ret(s, IOError)} ELSE {})

\* glob_lines: each pattern finds itself or nothing
RECURSIVE glob_loop(_, _, _)
glob_loop(s, lines_left, new_lines) ==
    IF lines_left = <<>>
    THEN {Ret([s EXCEPT !.current_output = join("\n", new_lines)], Ok)}
    ELSE glob_loop(s, Tail(lines_left), Append(new_lines, Head(lines_left)))
         \cup (IF s.stop_on_error THEN {Ret(s, CommandNotFoundError)}
               ELSE glob_loop(s, Tail(lines_left), new_lines))

glob_lines(s) == glob_loop(s, splitlines(s.current_output), <<>>)

exists(s) ==
    LET ls == splitlines(s.current_output)
    IN {Ret([s EXCEPT !.current_output = join("\n", [i \in 1..n |-> "true"])], Ok)
        : n \in 0..Len(ls)}

print_valid(s, flags) ==
    LET ls == splitlines(s.current_output)
    IN IF \E i \in 1..Len(split_comma(flags)) :
             split_comma(flags)[i] \notin {"all", "dir", "file", "symlink"}
       THEN {Ret(s, InvalidFilterFlag)}
       ELSE {Ret([s EXCEPT !.current_output = join("\n", pick(ls, M))], Ok)
             : M \in SUBSET (1..Len(ls))}

(***************************************************************************)
(* command.func(self, *args), line 989: the ways the handler named func    *)
(* can end from self = s with the parameters p.                            *)
(***************************************************************************)
Invoke(func, s, p) ==
    CASE func = "set_env" -> set_env(s, p[1])
      [] func = "set_stdout" -> set_stdout(s, p[1])
      [] func = "set_stderr" -> set_stderr(s, p[1])
      [] func = "set_exit" -> set_exit(s, p[1])
      [] func = "print_help" -> print_help(s)
      [] func = "platform_exec" -> platform_exec(s)
      [] func = "platform_open" -> platform_open(s)
      [] func = "run_command" -> run_command(s, p)
      [] func = "append" -> append(s, p[1])
      [] func = "read" -> read(s, p[1])
      [] func = "platform" -> platform(s)
      [] func = "cygwin_version" -> cygwin_version(s)
      [] func = "mingw_version" -> mingw_version(s)
      [] func = "timestamp" -> timestamp(s)
      [] func = "write_file" -> write_file(s, p[1])
      [] func = "append_file" -> append_file(s, p[1])
      [] func = "print" -> print(s)
      [] func = "for_each_line" -> for_each_line(s, p)
      [] func = "lines" -> lines(s, p[1], p[2])
      [] func = "remove_lines" -> remove_lines(s, p[1], p[2])
      [] func = "to_lower" -> to_lower(s)
      [] func = "to_upper" -> to_upper(s)
      [] func = "filter_lines" -> filter_lines(s, p[1])
      [] func = "remove_lines_regex" -> remove_lines_regex(s, p[1])
      [] func = "remove_empty_lines" -> remove_empty_lines(s)
      [] func = "regex_replace" -> regex_replace(s, p[1], p[2])
      [] func = "sort" -> sort(s, p[1])
      [] func = "unique" -> unique(s)
      [] func = "reverse_lines" -> reverse_lines(s)
      [] func = "first_line" -> first_line(s)
      [] func = "last_line" -> last_line(s)
      [] func = "sum_lines" -> sum_lines(s, p[1])
      [] func = "count_lines" -> count_lines(s)
      [] func = "env_path" -> env_path(s)
      [] func = "platform_path" -> platform_path(s)
      [] func = "shell_list" -> shell_list(s)
      [] func = "dirname" -> dirname(s)
      [] func = "basename" -> basename(s)
      [] func = "touch" -> touch(s, p[1])
      [] func = "symlink" -> symlink(s, p[1], p[2])
      [] func = "ensure_dir_explicit" -> ensure_dir_explicit(s, p[1])
      [] func = "ensure_dirs" -> ensure_dirs(s, p[1])
      [] func = "glob_lines" -> glob_lines(s)
      [] func = "exists" -> exists(s)
      [] OTHER -> print_valid(s, p[1])

(***************************************************************************)
(* parse_commands, lines 976-1005.  One step is one iteration of the while *)
(* loop of line 981, or the end of the loop.                               *)
(***************************************************************************)
\* lines 940-951 with the test of the character after the long flag left out
Matches_prefix(a, c) == startswith(a[1], c.arg_long) \/ a[1] \in c.arg_short

\* lines 939-951: whether parse_command, called for the command c on the
\* argument list a, gets past its "return False"
Matches(a, c) ==
    IF startswith(a[1], c.arg_long)
    THEN Len(a[1]) = Len(c.arg_long) \/ Chr(a[1], Len(c.arg_long) + 1) = "="
    ELSE a[1] \in c.arg_short

\* lines 984-987: the place in the registry R of the first command whose
\* parse_command does not return False on the argument list a; 0 when there
\* is none

FirstMatch(a, R) ==
    IF \A i \in 1..Len(R) : ~Matches(a, R[i]) THEN 0
    ELSE Min({i \in 1..Len(R) : Matches(a, R[i])})

\* lines 987-988 for the command c that matches: what parse_command (parsed)
\* and parse_command_params (captured) make of the argument list
StageRecord(c, parsed, captured) ==
    [matched |-> TRUE,
     parses |-> ~parsed.raised /\ ~captured.raised /\ ~captured.convert_error,
     command |-> c,
     count_error |-> parsed.raised \/ captured.raised,
     convert_error |-> ~parsed.raised /\ captured.convert_error,
     args |-> IF parsed.raised THEN parsed.args ELSE captured.args,
     params |-> IF parsed.raised THEN <<>> ELSE captured.params]

StageCaptured(c, parsed) ==
    StageRecord(c, parsed, parse_command_params(parsed.args, c))

StageParsed(a, c) ==
    StageCaptured(c, parse_command(a, c.arg_long, c.arg_short, c.param_count))

StageAt(a, R, m) ==
    IF m = 0 THEN [matched |-> FALSE, parses |-> FALSE] ELSE StageParsed(a, R[m])

\* the stage at the head of the argument list a
Stage(a) == StageAt(a, Registry, FirstMatch(a, Registry))

\* line 998 without its test of self.stop_on_error
stops_always(r, soe) == r # Ok

\* line 998: whether the loop is left after a handler returned r
stops(r, soe) == r # Ok /\ soe

\* lines 1002-1004 without the call of print_help
EpilogueSilent(r) == 0

\* lines 1002-1004: the help text is printed when result is NoCommands
Epilogue(r) == IF r = NoCommands THEN 1 ELSE 0

\* self as a handler left it
SetSelf(s) ==
    /\ current_output' = s.current_output
    /\ env' = s.env
    /\ stdout_mode' = s.stdout_mode
    /\ stdout_path' = s.stdout_path
    /\ stderr_mode' = s.stderr_mode
    /\ stderr_path' = s.stderr_path
    /\ stop_on_error' = s.stop_on_error
    /\ spawned' = s.spawned
    /\ open_files' = s.open_files

selfvars == <<current_output, env, stdout_mode, stdout_path, stderr_mode,
              stderr_path, stop_on_error, spawned, open_files>>

\* the loop test of line 981 fails: lines 1002-1005
LoopExit ==
    /\ pc = "loop"
    /\ args = <<>>
    /\ pc' = "returned"
    /\ help_printed' = help_printed + Epilogue(result)
    /\ UNCHANGED <<argv, args, selfvars, result, command, params, host, calls>>

\* lines 983-994 with the unknown token skipped when stop_on_error is false
UnknownArgSkips ==
    /\ pc = "loop"
    /\ args # <<>>
    /\ ~Stage(args).matched
    /\ result' = UnknownArgument
    /\ command' = Some(Registry[Len(Registry)].arg_long)
    /\ pc' = IF stop_on_error THEN "returned" ELSE "loop"
    /\ args' = IF stop_on_error THEN args ELSE Tail(args)
    /\ UNCHANGED <<argv, selfvars, params, host, calls, help_printed>>

\* lines 983-994 without the assignment of line 983: result keeps the status
\* of the stage before
UnknownArgStale ==
    /\ pc = "loop"
    /\ args # <<>>
    /\ ~Stage(args).matched
    /\ result' = result
    /\ command' = Some(Registry[Len(Registry)].arg_long)
    /\ pc' = "returned"
    /\ UNCHANGED <<argv, args, selfvars, params, host, calls, help_printed>>

\* no command matches the head: lines 983-994
UnknownArg ==
    /\ pc = "loop"
    /\ args # <<>>
    /\ ~Stage(args).matched
    /\ result' = UnknownArgument
    /\ command' = Some(Registry[Len(Registry)].arg_long)
    /\ pc' = "returned"
    /\ UNCHANGED <<argv, args, selfvars, params, host, calls, help_printed>>

\* the stage st is consumed: self.args, and the locals command and args
Consumed(st) ==
    /\ args' = st.args
    /\ command' = Some(st.command.arg_long)
    /\ params' = st.params

\* lines 995-997 with the "return" replaced by the test of line 998
MissingParamSoft(st) ==
    /\ st.matched
    /\ st.count_error
    /\ Consumed(st)
    /\ result' = MissingParameter
    /\ pc' = IF stop_on_error THEN "returned" ELSE "loop"
    /\ UNCHANGED <<argv, selfvars, host, calls, help_printed>>

\* parse_command or parse_command_params raises ParameterCountError: lines
\* 995-997
MissingParamAt(st) ==
    /\ st.matched
    /\ st.count_error
    /\ Consumed(st)
    /\ result' = MissingParameter
    /\ pc' = "returned"
    /\ UNCHANGED <<argv, selfvars, host, calls, help_printed>>

MissingParam == pc = "loop" /\ args # <<>> /\ MissingParamAt(Stage(args))

\* the converter of line 972 raises ValueError, which parse_commands does
\* not catch
ConvertRaisesAt(st) ==
    /\ st.matched
    /\ st.convert_error
    /\ Consumed(st)
    /\ result' = UnknownArgument
    /\ pc' = "raised"
    /\ UNCHANGED <<argv, selfvars, host, calls, help_printed>>

ConvertRaises == pc = "loop" /\ args # <<>> /\ ConvertRaisesAt(Stage(args))

\* the handler of the stage st is called at line 989 and ends as o
Handled(st, o) ==
    /\ Consumed(st)
    /\ calls' = Append(calls, st.command.func)
    /\ SetSelf(o.self)
    /\ UNCHANGED <<argv, host>>

\* the handler's outcomes for a stage that parses
Outcomes(st) == IF st.parses THEN Invoke(st.command.func, Self, st.params) ELSE {}

\* an exception leaves the handler, and parse_commands
HandlerRaisesAt(st) ==
    \E o \in Outcomes(st) :
        /\ o.raised
        /\ Handled(st, o)
        /\ result' = UnknownArgument
        /\ pc' = "raised"
        /\ UNCHANGED help_printed

\* the handler returns and line 998 lets the loop go on
StageContinuesAt(st) ==
    \E o \in Outcomes(st) :
        /\ ~o.raised
        /\ ~stops(o.result, o.self.stop_on_error)
        /\ Handled(st, o)
        /\ result' = o.result
        /\ help_printed' = help_printed + (IF o.help THEN 1 ELSE 0)
        /\ pc' = "loop"

\* the handler returns and line 998 breaks the loop: lines 999-1005
StageHaltsAt(st) ==
    \E o \in Outcomes(st) :
        /\ ~o.raised
        /\ stops(o.result, o.self.stop_on_error)
        /\ Handled(st, o)
        /\ result' = o.result
        /\ help_printed' = help_printed + (IF o.help THEN 1 ELSE 0) + Epilogue(o.result)
        /\ pc' = "returned"

HandlerRaises == pc = "loop" /\ args # <<>> /\ HandlerRaisesAt(Stage(args))

StageContinues == pc = "loop" /\ args # <<>> /\ StageContinuesAt(Stage(args))

StageHalts == pc = "loop" /\ args # <<>> /\ StageHaltsAt(Stage(args))

Next ==
    \/ LoopExit
    \/ UnknownArg
    \/ MissingParam
    \/ ConvertRaises
    \/ HandlerRaises
    \/ StageContinues
    \/ StageHalts

(***************************************************************************)
(* The initial states: CommandProcessor.__init__, lines 101-111, and the   *)
(* first lines of parse_commands, on the argument lists and hosts drawn.   *)
(***************************************************************************)
\* hosts: os.name, sys.platform, whether /cygdrive is a directory, whether
\* the MSYS2 probes answer
LinuxHost == [os_name |-> "posix", sys_platform |-> "linux", cygdrive |-> FALSE, msys2 |-> FALSE]
WindowsHost == [os_name |-> "nt", sys_platform |-> "win32", cygdrive |-> FALSE, msys2 |-> FALSE]
CygwinHost == [os_name |-> "posix", sys_platform |-> "cygwin", cygdrive |-> TRUE, msys2 |-> FALSE]
Msys2Host == [os_name |-> "nt", sys_platform |-> "win32", cygdrive |-> FALSE, msys2 |-> TRUE]
CygwinMsys2Host == [os_name |-> "nt", sys_platform |-> "win32", cygdrive |-> TRUE, msys2 |-> TRUE]

\* every list of at most n tokens of the set V
RECURSIVE ListsUpTo(_, _)
ListsUpTo(V, n) ==
    IF n = 0 THEN {<<>>}
    ELSE LET shorter == ListsUpTo(V, n - 1)
         IN shorter \cup {Append(l, t) : l \in {x \in shorter : Len(x) = n - 1}, t \in V}

InitWith(lists, hosts) ==
    /\ argv \in lists
    /\ args = argv
    /\ host \in hosts
    /\ current_output = ""
    /\ env = [k \in {} |-> ""]
    /\ stdout_mode = ModeProcess
    /\ stdout_path = None
    /\ stderr_mode = ModePrint
    /\ stderr_path = None
    /\ stop_on_error = TRUE
    /\ result = NoCommands
    /\ command = None
    /\ params = <<>>
    /\ pc = "loop"
    /\ calls = <<>>
    /\ help_printed = 0
    /\ spawned = <<>>
    /\ open_files = 0

\* The tokens of the dispatch specification: flags of every arity (fixed:
\* --in, --include, --sub; until ";": --exec, --foreach; none: --unique), the
\* "--flag=value" form, a stage that fails (--env=x), a stage that returns
\* None (--ensure-dirs=p), the switch of stop_on_error, and tokens that are
\* no flag.
Tokens ==
    {"--in", "--in=a", "--include", "1", "x", "--exec", "--exec=x", ";",
     "--stoponerror=false", "--env=x", "--ensure-dirs=p", "--unique", "--bogus", "--sub",
     "--foreach"}

\* Buffers of up to three lines, as --in takes them: "\\n" stands for a
\* line break.  Equal keys on distinct lines, a missing second field, an
\* empty line, fields that are no numbers, a line break at the end, fields
\* that spell an infinity, and the empty buffer.
Buffers ==
    {"", "a\\nb\\n", "b 2\\na 1\\nc 1", "3 a\\n4 b\\n5 c", "a 1\\nb 2\\nc", "b\\na\\nb",
     "10 x\\n9 y\\n10 z", "a\\n\\nb", "x 1\\ny z", "7", "-5 1\\n3 -2",
     "a\\nb inf\\nc 2", "inf\\n-INF"}

\* Argument lists that put single stages to work.  Flags of which one is a
\* prefix of another, their "=value" forms and tokens that only begin like a
\* flag, each alone, with one parameter and with two.
StageLists ==
    {<<t>> \o ps :
        t \in {"--filter", "--filter-out", "--env", "--env-path", "--in",
                "--include", "--print", "--print-valid", "--platform",
                "--platform-exec", "--platform-open", "--ensure-dir",
                "--ensure-dirs", "-f", "-i", "-p", "--filter=a",
                "--filter-out=a", "--in=a", "--print=valid", "--filterx",
                "--filter-", "--in-", "--fil", "-fa"},
        ps \in {<<>>, <<"a">>, <<"1", "1">>}}
    \cup
    \* --sort over each buffer
    {<<"--in=" \o b, "--sort", f>> :
        b \in Buffers,
        f \in {"none", "asc", "desc", "desc,desc", "desc,asc", "int", "int,desc",
               "float", "int16", "strip", "column=2", "column=2,desc",
               "column=2,int", "column=2,int,desc", "column=0",
               "column=2,ignore_error_lines", "column=2,ignore_error_lines,desc",
               "column=2,int,ignore_error_lines",
               "column=2,int,ignore_error_lines,desc",
               "column=2,int,strip,ignore_error_lines", "column=a",
               "column=2,float,ignore_error_lines",
               "column=2,float,ignore_error_lines,desc",
               "column=2,int16,ignore_error_lines",
               "column= (?P<value>.)$", "column= (?P<value>.)$,int",
               "column= (?P<value>.)$,int,ignore_error_lines",
               "column= (?P<value>.)$,desc,int,ignore_error_lines",
               "column=a,int,ignore_error_lines",
               "column=a,ignore_error_lines", "column=(", "bogus", "int,bogus",
               ""}}
    \cup
    \* --sum over each buffer
    {<<"--in=" \o b, "--sum", f>> :
        b \in Buffers,
        f \in {"column=" \o str(k) \o ",int" : k \in 1..MaxColumn} \cup
              {"none", "float", "int", "int16", "column=0,int", "column=1,int16",
               "column=2,int16",
               "column=2,int,ignore_error_lines", "column=1,float=2",
               "column=1,float=0", "float=2,none", "column=a",
               "float=2,column=1", "column=2,float=1,ignore_error_lines",
               "column= (?P<value>.)$,int,ignore_error_lines",
               "column= (?P<value>.)$,int",
               "column=a,ignore_error_lines", "column=(", "bogus", "int,bogus",
               ""}}
    \cup
    \* --unique over each buffer and over the lines a, a, b, a
    {<<"--in=" \o b, "--unique">> : b \in Buffers \cup {"a\\na\\nb\\na"}}
    \cup
    \* --include and --exclude with every pair of indices from two before the
    \* first line to beyond the last
    {<<"--in=" \o b, flag \o "=" \o str(from), str(to)>> :
        b \in {"", "a\\nb", "a\\nb\\n", "a\\nb\\nc\\nd\\ne"},
        flag \in {"--include", "--exclude"},
        from \in (0 - 2)..MaxIndex, to \in (0 - 2)..MaxIndex}
    \cup
    \* --filter, --filter-out and --sub with patterns that compile and
    \* patterns that do not
    {<<"--in=" \o b>> \o stage :
        b \in Buffers,
        stage \in {<<flag, p>> : flag \in {"--filter", "--filter-out"},
                                p \in {"(", "[", "*a", "a)", "a", "^b", "1$", "."}}
               \cup {<<"--sub=" \o p, r>> : p \in {"(", "[", "*a", "a)", "a", "^b"},
                                            r \in {"x", ""}}}
    \cup
    \* --foreach over buffers of no, one, two and three lines, without and
    \* with fixed arguments, and with a sink that cannot be opened
    {front \o <<"--in=" \o b>> \o stage :
        front \in {<<>>, <<"--stoponerror=false">>, <<"--stdout=o">>},
        b \in {"", "a", "a\\nb", "a\\nb\\nc"},
        stage \in {<<"--foreach=x", ";">>, <<"--foreach", "x", "y", ";">>}}
    \cup
    \* --exec and --foreach writing to files: each sink alone, both, and
    \* paths without a directory, which os.makedirs refuses
    {<<"--in=a">> \o sinks \o stage \o rest :
        sinks \in {<<"--stdout=d/o">>, <<"--stderr=d/e">>,
                   <<"--stdout=d/o", "--stderr=d/e">>,
                   <<"--stdout=d/o", "--stderr=e">>,
                   <<"--stdout=o", "--stderr=d/e">>},
        stage \in {<<"--exec=x", ";">>, <<"--foreach=x", ";">>},
        rest \in {<<>>, <<"--in=b">>}}
    \cup
    \* flags without parameters in the form "--flag=value", in chains
    {<<t>> \o ps :
        t \in {"--print=--print=--print", "--print=--count=--print=x",
                "--first=--last=", "--in=--in=--in=a", "--print==--print"},
        ps \in {<<>>, <<"--print=--print">>}}
    \cup
    \* up to three --stdout and --stderr stages: the three modes, the name of
    \* the fourth, a file and the empty value
    ListsUpTo({"--stdout=print", "--stdout=ignore", "--stdout=f", "--stdout=",
               "--stderr=process", "--stderr=ignore", "--stderr=f",
               "--stderr=write"}, 3)
    \cup
    \* the configuration stages and the stages that write the buffer out,
    \* behind a buffer of two lines, with values that are accepted and
    \* values that are rejected, after stop_on_error and the environment
    \* have been set or not
    {front \o <<"--in=a\\nb">> \o stage :
        front \in {<<>>, <<"--stoponerror=false">>, <<"--env=k=v">>},
        stage \in {<<"--env=k=w">>, <<"--env=x">>, <<"--env==">>, <<"--env=">>,
                    <<"--stdout=f">>, <<"--stderr=ignore">>,
                    <<"--stoponerror=false">>, <<"--stoponerror= TRUE ">>,
                    <<"--stoponerror=no">>, <<"--stoponerror=">>,
                    <<"--out=f">>, <<"--append=d/f">>, <<"-o", "f">>,
                    <<"-a", "">>, <<"--print">>, <<"--print=x">>}}
    \cup
    \* --reverse once and twice
    {<<"--in=" \o b>> \o stages :
        b \in Buffers, stages \in {<<"--reverse">>, <<"--reverse", "--reverse">>}}
    \cup
    \* the environment queries with a stage behind them, under either value
    \* of stop_on_error
    {front \o <<query, "--in=a">> :
        front \in {<<>>, <<"--stoponerror=false">>},
        query \in {"--cygwin", "-c", "--mingw", "-m"}}

\* Argument lists of the path conversions, run on every host: a buffer of
\* paths, then --env-path, --platform-path, or the one after the other.
\* Drive paths of either case with either separator, with a trailing and a
\* doubled separator, a drive alone, letters before a colon that are no
\* drive, POSIX paths, paths in the Cygwin and the MSYS2 form, a relative
\* path, a blank in front, and three lines of which one is no drive path.
PathLists ==
    {<<"--in=" \o b>> \o stages :
        b \in {"C:\\Users\\x", "C:/Users/x", "c:/Users/x", "d:\\a/b", "c:/", "C:\\",
               "c:/a/", "c:/a//b", "ab:/x", "C:x", "/usr/bin", "/cygdrive/c/x",
               "/cygdrive/C/x", "/c/x", "/c/", "/cygdrive/x", "rel/x", "", " c:/x",
               "c:/a\\n/usr/bin\\nD:\\b"},
        stages \in {<<"--env-path">>, <<"--platform-path">>,
                    <<"--env-path", "--platform-path">>}}

Init ==
    \/ InitWith(ListsUpTo(Tokens, MaxArgs) \cup StageLists, {LinuxHost})
    \/ InitWith(PathLists,
                {LinuxHost, WindowsHost, CygwinHost, Msys2Host, CygwinMsys2Host})

Spec == Init /\ [][Next]_vars

(***************************************************************************)
(* Properties of the dispatch loop.                                        *)
(***************************************************************************)
\* the token t matches no registered command
Unregistered(t) == \A i \in 1..Len(Registry) : ~Matches(<<t>>, Registry[i])

\* how many tokens follow the flag of the command c at the head of the list
\* a, the value of the form "--flag=value" counted
Following(a, c) ==
    IF a[1] = c.arg_long \/ a[1] \in c.arg_short THEN Len(a) - 1 ELSE Len(a)

\* a command of fixed arity n >= 1 is at the head of the list a and fewer
\* than n tokens follow its flag; m is the place of the command in the
\* registry
TooFewAt(a, m) ==
    /\ m # 0
    /\ Registry[m].param_count >= 1
    /\ Following(a, Registry[m]) < Registry[m].param_count

TooFew(a) == TooFewAt(a, FirstMatch(a, Registry))

\* C1: when the command at the head of the remaining list has fixed arity
\* n >= 1 and fewer than n tokens follow its flag, the run ends at once with
\* status MissingParameter and no handler is invoked, whatever stop_on_error
\* is.
C1_TooFewTokens ==
    [][pc = "loop" /\ args # <<>> /\ TooFew(args)
         => pc' = "returned" /\ result' = MissingParameter /\ calls' = calls]_vars

\* --sub, of arity 2, met one token after a stage switched stop_on_error off
C1_Witness ==
    /\ argv = <<"--stoponerror=false", "--sub", "x">>
    /\ pc = "returned"
    /\ result = MissingParameter
    /\ ~stop_on_error
    /\ calls = <<"set_exit">>

\* C2: at a dispatch step whose head token matches no registered command the
\* run returns UnknownArgument at once, no handler is invoked and no token is
\* consumed, whatever stop_on_error is.
C2_UnknownHead ==
    [][pc = "loop" /\ args # <<>> /\ ~Stage(args).matched
         => /\ pc' = "returned"
            /\ result' = UnknownArgument
            /\ calls' = calls
            /\ args' = args]_vars

\* an unknown token after a stage that ran with stop_on_error false, with a
\* token left behind it
C2_Witness ==
    /\ argv = <<"--stoponerror=false", "--bogus", "--in=a">>
    /\ pc = "returned"
    /\ result = UnknownArgument
    /\ args = <<"--bogus", "--in=a">>
    /\ calls = <<"set_exit">>

\* C3 as stated: every returned run whose argument list holds a token that
\* matches no registered command has returned UnknownArgument.
C3_UnknownAnywhere ==
    pc = "returned" /\ (\E i \in 1..Len(argv) : Unregistered(argv[i]))
        => result = UnknownArgument

\* C3, amended: once a token that matches no registered command is the head
\* of the remaining list at a dispatch step, every status the run returns is
\* UnknownArgument.
C3_UnknownReached ==
    [](pc = "loop" /\ args # <<>> /\ Unregistered(args[1])
         => [](pc = "returned" => result = UnknownArgument))

\* the unknown token is reached after a stage failed with stop_on_error false
C3_Witness ==
    /\ argv = <<"--stoponerror=false", "--env=x", "--bogus">>
    /\ pc = "returned"
    /\ result = UnknownArgument
    /\ calls = <<"set_exit", "set_env">>

\* C4: a returned run has status NoCommands, with the help text printed,
\* exactly when its argument list was empty.
C4_NoCommands ==
    pc = "returned"
        => /\ (result = NoCommands /\ help_printed > 0) <=> argv = <<>>
           /\ argv # <<>> => result # NoCommands

\* the run on the empty argument list
C4_Witness ==
    /\ argv = <<>>
    /\ pc = "returned"
    /\ result = NoCommands
    /\ help_printed = 1

\* C5: a handler that returns a status other than Ok while stop_on_error (as
\* the handler left it) is true ends the run with that status; a handler
\* that returns Ok, or returns while stop_on_error is false, sends the run
\* back to the loop test for the next token; a run that has returned invokes
\* nothing more and keeps its status.
C5_StopOnError ==
    [][/\ calls' # calls /\ pc' # "raised"
            => IF result' # Ok /\ stop_on_error'
               THEN pc' = "returned"
               ELSE pc' = "loop"
       /\ pc = "returned" => calls' = calls /\ result' = result]_vars

\* --env=x fails while stop_on_error is true and the token after it is left
C5_Witness ==
    /\ argv = <<"--env=x", "--in=a">>
    /\ pc = "returned"
    /\ result = InvalidEnvValue
    /\ stop_on_error
    /\ calls = <<"set_env">>
    /\ args = <<"--in=a">>

\* C6 as stated: a run that returns at the end of the argument list with
\* stop_on_error false, and with neither UnknownArgument nor
\* MissingParameter, returns Ok.
C6_SoftFailureDiscarded ==
    /\ pc = "returned"
    /\ args = <<>>
    /\ ~stop_on_error
    /\ result \notin {UnknownArgument, MissingParameter}
    => result = Ok

\* C7 as stated: the value a run returns is a status of the taxonomy,
\* CommandResults.check holds of it.
C7_StatusInTaxonomy == pc = "returned" => check(result)

\* the handlers of the line transformations C8 names
LineTransforms ==
    {"unique", "regex_replace", "sort", "sum_lines", "lines", "remove_lines",
     "filter_lines", "remove_lines_regex", "reverse_lines", "first_line",
     "last_line", "count_lines"}

\* C8 as stated: no call of a line transformation ends by an exception that
\* leaves parse_commands.
C8_TransformsTotal ==
    [][calls' # calls /\ calls'[Len(calls')] \in LineTransforms
         => pc' # "raised"]_vars

\* the head token t is the flag of a command whose parameters run to ";"
IsUntilHead(t) ==
    \/ t \in {"--exec", "-e", "--foreach"}
    \/ startswith(t, "--exec=")
    \/ startswith(t, "--foreach=")

\* the tokens after that flag, the value of "--flag=value" first
AfterUntilFlag(a) ==
    IF a[1] \in {"--exec", "-e", "--foreach"} THEN Tail(a)
    ELSE <<removeprefix(removeprefix(a[1], "--exec="), "--foreach=")>> \o Tail(a)

\* the step taken on the tokens r that follow such a flag
UntilStep(r) ==
    IF \A i \in 1..Len(r) : r[i] # ";"
    THEN pc' = "returned" /\ result' = MissingParameter /\ calls' = calls
    ELSE \E k \in 1..Len(r) :
            /\ r[k] = ";"
            /\ \A i \in 1..(k - 1) : r[i] # ";"
            /\ params' = SubSeq(r, 1, k - 1)
            /\ args' = SubSeq(r, k + 1, Len(r))
            /\ Len(calls') = Len(calls) + 1

\* C9: for --exec and --foreach the captured parameters are the tokens
\* before the first ";" among the tokens that follow the flag, the ";" is
\* dropped, the tokens after it stay in order as the remaining list, and the
\* handler is called; with no ";" the run returns MissingParameter and no
\* handler is called.
C9_UntilTerminator ==
    [][pc = "loop" /\ args # <<>> /\ IsUntilHead(args[1])
         => UntilStep(AfterUntilFlag(args))]_vars

\* "x" is captured, the ";" is dropped and "--in=a" is left
C9_Witness ==
    /\ argv = <<"--exec=x", ";", "--in=a">>
    /\ params = <<"x">>
    /\ args = <<"--in=a">>
    /\ calls = <<"run_command">>

\* C10 as stated: when a token consumed by --include or --exclude is no
\* integer, the run returns MissingParameter, no handler is called and the
\* buffer is unchanged.
C10_ConvertFailure ==
    [][/\ pc = "loop"
       /\ Len(args) >= 3
       /\ args[1] \in {"--include", "--exclude"}
       /\ ~int_ok(args[2]) \/ ~int_ok(args[3])
       => /\ pc' = "returned"
          /\ result' = MissingParameter
          /\ calls' = calls
          /\ current_output' = current_output]_vars

(***************************************************************************)
(* Properties of flag matching.                                            *)
(***************************************************************************)
\* the token t is the short flag of the command c, its long flag, or its
\* long flag followed by "="
MatchesFlag(t, c) ==
    t \in c.arg_short \/ t = c.arg_long \/ startswith(t, c.arg_long \o "=")

\* the handler registered under the long flag
FuncOf(flag) ==
    Registry[CHOOSE i \in 1..Len(Registry) : Registry[i].arg_long = flag].func

\* the longer flag of every pair of long flags of which one begins the other
LongerFlags ==
    {"--filter-out", "--env-path", "--include", "--print-valid",
     "--platform-exec", "--ensure-dirs"}

\* the step from the head token t: t is unknown exactly when it matches no
\* command that way; otherwise the command dispatched is one it matches, and
\* for the form "--flag=value" the value is the first captured parameter
\* (converted, for --include and --exclude), or the new head when the
\* command takes none; a longer flag goes to its own handler
PrefixStep(t) ==
    /\ (\A i \in 1..Len(Registry) : ~MatchesFlag(t, Registry[i]))
         <=> (pc' = "returned" /\ result' = UnknownArgument /\ args' = args)
    /\ (\E i \in 1..Len(Registry) : MatchesFlag(t, Registry[i]))
         => \E i \in 1..Len(Registry) :
               /\ MatchesFlag(t, Registry[i])
               /\ command' = Some(Registry[i].arg_long)
               /\ startswith(t, Registry[i].arg_long \o "=") /\ calls' # calls
                    => LET value == removeprefix(t, Registry[i].arg_long \o "=")
                       IN IF Registry[i].param_count = 0
                          THEN args' = <<value>> \o Tail(args)
                          ELSE IF Registry[i].param_convert = Some("int")
                          THEN params'[1] = int(value)
                          ELSE params'[1] = value
    /\ t \in LongerFlags
         => /\ command' = Some(t)
            /\ calls' # calls => calls'[Len(calls')] = FuncOf(t)

\* C11: a head token matches a command iff it is its short flag, its long
\* flag, or its long flag followed by "=" (whose value becomes the next
\* token); a long flag with any other continuation does not match, so the
\* longer of two flags that share a prefix reaches its own handler.
C11_FlagMatching ==
    [][pc = "loop" /\ args # <<>> => PrefixStep(args[1])]_vars

\* --filter-out is dispatched to remove_lines_regex, not to --filter
C11_Witness ==
    /\ argv = <<"--filter-out", "a">>
    /\ command = Some("--filter-out")
    /\ calls = <<"remove_lines_regex">>
    /\ params = <<"a">>

\* C12 as stated: when --platform-exec or --platform-open is dispatched,
\* the buffer is left as the first declared body of that flag leaves it.
C12_FirstDeclarationRuns ==
    [][/\ calls' = Append(calls, "platform_exec")
          => \E o \in platform_exec_first(Self) :
                current_output' = o.self.current_output
       /\ calls' = Append(calls, "platform_open")
          => \E o \in platform_open_first(Self) :
                current_output' = o.self.current_output]_vars

(***************************************************************************)
(* Properties of --sort.                                                   *)
(***************************************************************************)
\* the settings the flag list leaves, lines 540-578
SortSettings(flags) ==
    sort_flags(split_comma(flags),
               [column |-> [kind |-> "int", index |-> 0, pattern |-> ""],
                reverse |-> FALSE, ignore_error_lines |-> FALSE,
                use_numeric |-> FALSE, key_func |-> "id", error |-> Ok])

\* the one-to-one maps of 1..n onto itself
Orders(n) ==
    {f \in [1..n -> 1..n] : \A i, j \in 1..n : f[i] = f[j] => i = j}

\* out joins the lines ls in an order that keeps every two lines of equal
\* key in the order they have in ls
StableOrder(ls, c, out) ==
    \E f \in Orders(Len(ls)) :
        /\ out = join("\n", [i \in 1..Len(ls) |-> ls[f[i]]])
        /\ \A i, j \in 1..Len(ls) :
              i < j /\ sort_get_value(c, ls[f[i]]) = sort_get_value(c, ls[f[j]])
                 => f[i] < f[j]

\* a --sort stage has returned Ok in this step
SortReturnsOk ==
    calls' = Append(calls, "sort") /\ pc' # "raised" /\ result' = Ok

\* C13: --sort is stable in both directions: for every buffer and every
\* accepted flag list, with or without desc, the output is a permutation of
\* the input lines in which lines of equal key keep their input order.
C13_SortStable ==
    [][SortReturnsOk
          => StableOrder(splitlines(current_output), SortSettings(params'[1]),
                         current_output')]_vars

\* descending by the second field: the two lines of key "1" keep their
\* input order behind the line of key "2"
C13_Witness ==
    /\ argv = <<"--in=b 2\\na 1\\nc 1", "--sort", "column=2,desc">>
    /\ calls = <<"append", "sort">>
    /\ result = Ok
    /\ current_output = "b 2\na 1\nc 1"

\* no two lines of ls have the same key
DistinctKeys(ls, c) ==
    \A i, j \in 1..Len(ls) :
        i < j => sort_get_value(c, ls[i]) # sort_get_value(c, ls[j])

\* out joins the lines ls in some order and back joins them in the reverse
\* of that order
ReverseOrders(ls, out, back) ==
    \E f \in Orders(Len(ls)) :
        /\ out = join("\n", [i \in 1..Len(ls) |-> ls[f[i]]])
        /\ back = join("\n", [i \in 1..Len(ls) |-> ls[f[Len(ls) + 1 - i]]])

\* --sort with the flag list flags and ",desc" behind it, run on the buffer
\* the step started from, returns Ok and leaves the reverse of what the
\* step left
DescReverses(flags) ==
    \A o \in sort(Self, flags \o ",desc") :
        /\ ~o.raised
        /\ o.result = Ok
        /\ ReverseOrders(splitlines(current_output), current_output',
                         o.self.current_output)

\* no line takes the key float("inf") or float("-inf") that
\* ignore_error_lines gives under a numeric flag
NoInfiniteKey(ls, c) ==
    \A i \in 1..Len(ls) : sort_get_value(c, ls[i]).inf = 0

\* C14 as stated: for every buffer of pairwise distinct keys and every
\* accepted flag list F, --sort F,desc gives the reverse of --sort F.
C14_DescReversesAll ==
    [][SortReturnsOk
       /\ DistinctKeys(splitlines(current_output), SortSettings(params'[1]))
          => DescReverses(params'[1])]_vars

\* C14: for every buffer of pairwise distinct keys and every accepted flag
\* list F that sorts ascending and gives no line an infinite key, --sort
\* F,desc gives the reverse of --sort F.
C14_DescReversesAscending ==
    [][(/\ SortReturnsOk
        /\ DistinctKeys(splitlines(current_output), SortSettings(params'[1]))
        /\ ~SortSettings(params'[1]).reverse
        /\ NoInfiniteKey(splitlines(current_output), SortSettings(params'[1])))
          => DescReverses(params'[1])]_vars

\* ascending by the second field with the line that lacks it first; the
\* descending order puts it last
C14_Witness ==
    /\ argv = <<"--in=a 1\\nb 2\\nc", "--sort", "column=2,ignore_error_lines">>
    /\ calls = <<"append", "sort">>
    /\ result = Ok
    /\ current_output = "c\na 1\nb 2"

(***************************************************************************)
(* Properties of --sort and --sum.                                         *)
(***************************************************************************)
\* the handler func has returned the status r in this step
Returns(func, r) ==
    calls' = Append(calls, func) /\ pc' # "raised" /\ result' = r

\* C15: whenever --sort or --sum returns a status other than Ok, the status
\* is one of InvalidSortFlag, InvalidSumFlag, InvalidSortColumn,
\* InvalidSortValue, InvalidSumValue and the buffer after the stage is the
\* buffer before it.
C15_RejectedLeavesBuffer ==
    [][\A func \in {"sort", "sum_lines"} :
          Returns(func, result') /\ result' # Ok
             => /\ current_output' = current_output
                /\ result' \in {InvalidSortFlag, InvalidSumFlag, InvalidSortColumn,
                                InvalidSortValue, InvalidSumValue}]_vars

\* the second line has no number in its second field: InvalidSortValue, and
\* both lines are where they were
C15_Witness ==
    /\ argv = <<"--in=x 1\\ny z", "--sort", "column=2,int">>
    /\ calls = <<"append", "sort">>
    /\ pc = "returned"
    /\ result = InvalidSortValue
    /\ current_output = "x 1\ny z"

\* the k-th field of the line, as re.split("[ \t]+", line) counts them
Field(line, k) == re_split_blank(line)[k]

\* every line has a k-th field that is a decimal integer
EveryFieldInt(ls, k) ==
    \A i \in 1..Len(ls) :
        k <= Len(re_split_blank(ls[i])) /\ int_ok(Field(ls[i], k))

\* the sum of the k-th fields
RECURSIVE FieldSum(_, _)
FieldSum(ls, k) ==
    IF ls = <<>> THEN 0 ELSE int(Field(Head(ls), k)) + FieldSum(Tail(ls), k)

\* C16: --sum column=k,int over a buffer whose lines all have a decimal
\* integer as k-th field returns Ok and leaves the decimal rendering of the
\* sum of those fields; over the empty buffer it leaves "0".
C16_SumOfColumn ==
    [][\A k \in 1..MaxColumn :
          /\ calls' = Append(calls, "sum_lines")
          /\ params' = <<"column=" \o str(k) \o ",int">>
          /\ EveryFieldInt(splitlines(current_output), k)
          => /\ pc' # "raised"
             /\ result' = Ok
             /\ current_output' = str(FieldSum(splitlines(current_output), k))
             /\ current_output = "" => current_output' = "0"]_vars

\* the lines "3 a", "4 b", "5 c" give "12"
C16_Witness ==
    /\ argv = <<"--in=3 a\\n4 b\\n5 c", "--sum", "column=1,int">>
    /\ calls = <<"append", "sum_lines">>
    /\ result = Ok
    /\ current_output = "12"

(***************************************************************************)
(* Properties of --unique, --include and --exclude.                        *)
(***************************************************************************)
\* the lines of ls without each line that equals the retained line before it
RECURSIVE Dedup(_)
Dedup(ls) ==
    IF Len(ls) <= 1 THEN ls
    ELSE LET front == Dedup(SubSeq(ls, 1, Len(ls) - 1))
         IN IF ls[Len(ls)] = front[Len(front)] THEN front
            ELSE Append(front, ls[Len(ls)])

\* C17 as stated: on every buffer --unique returns Ok and leaves the input
\* lines without each line that equals the retained line before it, so that
\* the lines a, a, b, a become a, b, a.
C17_UniqueAdjacent ==
    [][calls' = Append(calls, "unique")
          => /\ pc' # "raised"
             /\ result' = Ok
             /\ current_output'
                  = join("\n", Dedup(splitlines(current_output)))]_vars

\* the lines of ls from the 0-based index i on whose index is inside the
\* range lo <= index < hi (inside = TRUE) or outside of it (inside = FALSE)
RECURSIVE KeptFrom(_, _, _, _, _)
KeptFrom(ls, i, lo, hi, inside) ==
    IF i >= Len(ls) THEN <<>>
    ELSE (IF (lo <= i /\ i < hi) = inside THEN <<ls[i + 1]>> ELSE <<>>)
         \o KeptFrom(ls, i + 1, lo, hi, inside)

\* the end of the range: 0 stands for the number of lines
RangeEnd(ls, to) == IF to = 0 THEN Len(ls) ELSE to

\* a negative index counts from the end of the n lines, and not further
\* than to the first
FromEnd(k, n) == IF k >= 0 THEN k ELSE IF n + k < 0 THEN 0 ELSE n + k

\* C18 as stated: --include FROM TO leaves the lines whose 0-based index i
\* satisfies FROM <= i < TO, TO = 0 standing for the number of lines.
C18_IncludeRange ==
    [][calls' = Append(calls, "lines")
          => /\ pc' # "raised"
             /\ result' = Ok
             /\ current_output'
                  = join("\n", KeptFrom(splitlines(current_output), 0, params'[1],
                                        RangeEnd(splitlines(current_output),
                                                 params'[2]), TRUE))]_vars

\* C18: --include FROM TO returns Ok and leaves the lines whose 0-based
\* index i satisfies FROM <= i < TO, where TO = 0 stands for the number of
\* lines and a negative FROM or TO counts from the end of the buffer.
C18_IncludeRangeFromEnd ==
    [][calls' = Append(calls, "lines")
          => /\ pc' # "raised"
             /\ result' = Ok
             /\ current_output'
                  = join("\n",
                         KeptFrom(splitlines(current_output), 0,
                                  FromEnd(params'[1], Len(splitlines(current_output))),
                                  FromEnd(RangeEnd(splitlines(current_output),
                                                   params'[2]),
                                          Len(splitlines(current_output))),
                                  TRUE))]_vars

\* --include 1 0 over five lines leaves the lines 2 to 5
C18_Witness ==
    /\ argv = <<"--in=a\\nb\\nc\\nd\\ne", "--include=1", "0">>
    /\ calls = <<"append", "lines">>
    /\ result = Ok
    /\ current_output = "b\nc\nd\ne"

\* C19 as stated: --exclude FROM TO leaves each line whose 0-based index is
\* outside the range FROM <= i < TO once and in input order, TO = 0
\* standing for the number of lines, for every pair of integers, FROM > TO
\* included.  Stated here for the indices that are not negative.
C19_ExcludeRange ==
    [][calls' = Append(calls, "remove_lines") /\ params'[1] >= 0 /\ params'[2] >= 0
          => /\ pc' # "raised"
             /\ result' = Ok
             /\ current_output'
                  = join("\n", KeptFrom(splitlines(current_output), 0, params'[1],
                                        RangeEnd(splitlines(current_output),
                                                 params'[2]), FALSE))]_vars

(***************************************************************************)
(* Properties of --filter, --filter-out and --sub.                         *)
(***************************************************************************)
\* the patterns Init draws that re.compile rejects: an unclosed group, an
\* unclosed set, a quantifier with nothing to repeat, a stray ")"
BadPatterns == {"(", "[", "*a", "a)"}

\* C20: --filter, --filter-out and --sub given a pattern that does not
\* compile return RegexError, and the buffer after the stage is the buffer
\* before it.
C20_BadPattern ==
    [][\A func \in {"filter_lines", "remove_lines_regex", "regex_replace"} :
          calls' = Append(calls, func) /\ params'[1] \in BadPatterns
             => /\ pc' # "raised"
                /\ result' = RegexError
                /\ current_output' = current_output]_vars

\* --filter with an unclosed group over three lines
C20_Witness ==
    /\ argv = <<"--in=b\\na\\nb", "--filter", "(">>
    /\ calls = <<"append", "filter_lines">>
    /\ pc = "returned"
    /\ result = RegexError
    /\ current_output = "b\na\nb"

(***************************************************************************)
(* Properties of --env-path and --platform-path.                           *)
(***************************************************************************)
\* the text handed to --in
Original == removeprefix(argv[1], "--in=")

\* a native Windows absolute path on one line: a drive letter, a colon and
\* a separator
IsDrivePath(p) ==
    /\ Len(p) >= 3
    /\ IsLetters(Chr(p, 1))
    /\ Chr(p, 2) = ":"
    /\ Chr(p, 3) \in {"\\", "/"}
    /\ find(p, "\\n") = 0

\* what follows the drive and the first separator, with forward slashes
Rest(p) == replace(SubSeq(p, 4, Len(p)), "\\", "/")

\* --platform-path runs right after --env-path on a Windows host with a
\* Cygwin environment
RoundTripStep ==
    /\ IsWindows /\ is_cygwin_env
    /\ calls = <<"append", "env_path">>
    /\ calls' = Append(calls, "platform_path")

\* the path with forward slashes and its first letter in lower case
Folded(p) ==
    lower(Chr(p, 1)) \o replace(SubSeq(p, 2, Len(p)), "\\", "/")

\* C21 as stated: under a Windows host with a Cygwin environment --env-path
\* followed by --platform-path reproduces every native Windows absolute
\* path.  Stated here up to the case of the drive letter and the kind of
\* separator, which the spec's own example lets differ.
C21_RoundTrip ==
    [][RoundTripStep /\ IsDrivePath(Original)
          => Folded(current_output') = Folded(Original)]_vars

\* the prefix that --env-path puts in front of the drive on this host
EnvPrefix ==
    IF is_cygwin_env THEN "/cygdrive/" ELSE IF is_msys2_env THEN "/" ELSE ""

\* the path --env-path makes of the drive path p: the prefix, the drive
\* letter in lower case and the rest, or p with forward slashes where the
\* host has neither environment
EnvForm(p) ==
    IF is_cygwin_env \/ is_msys2_env
    THEN EnvPrefix \o lower(Chr(p, 1)) \o "/" \o Rest(p)
    ELSE replace(p, "\\", "/")

\* one line of the form EnvForm for every line that is a drive path
RECURSIVE ClaimedEnvLines(_)
ClaimedEnvLines(ls) ==
    IF ls = <<>> THEN <<>>
    ELSE (IF IsDrivePath(Head(ls)) THEN <<EnvForm(Head(ls))>> ELSE <<>>)
         \o ClaimedEnvLines(Tail(ls))

\* an --env-path stage has run in this step
EnvPathStep == calls' = Append(calls, "env_path")

\* C22 as stated: on a Windows host --env-path leaves one line per input
\* line that is a drive path X:/rest or X:\rest, in input order:
\* /cygdrive/x/rest under Cygwin, /x/rest under MSYS2 only, the
\* forward-slash path otherwise; on another host the buffer is unchanged.
C22_EnvPathForms ==
    [][EnvPathStep
          => /\ pc' # "raised" /\ result' = Ok
             /\ current_output'
                  = IF IsWindows
                    THEN join("\n", ClaimedEnvLines(splitlines(current_output)))
                    ELSE current_output]_vars


\* what C29 lets --platform-path make of a line: x:/rest for /cygdrive/x/rest
\* under Cygwin and for /x/rest under MSYS2 without Cygwin, x one letter;
\* the line with its blanks stripped and forward slashes otherwise
ClaimedPlatformLine(raw) ==
    LET line == replace(strip(raw), "\\", "/")
        tail == IF is_cygwin_env THEN removeprefix(line, "/cygdrive/")
                ELSE removeprefix(line, "/")
    IN IF /\ is_cygwin_env \/ is_msys2_env
          /\ startswith(line, IF is_cygwin_env THEN "/cygdrive/" ELSE "/")
          /\ IsLetters(Chr(tail, 1))
          /\ Chr(tail, 2) = "/"
       THEN lower(Chr(tail, 1)) \o ":/" \o SubSeq(tail, 3, Len(tail))
       ELSE line

\* C29 as stated: on Windows --platform-path gives one line for each line
\* of the buffer, x:/rest for a line with a drive letter x in the form of
\* the environment and the line itself, with forward slashes, for every
\* other line.
C29_OnlyDriveForms ==
    [][calls' = Append(calls, "platform_path") /\ IsWindows
          => current_output' =
                join("\n", [i \in 1..Len(splitlines(current_output)) |->
                              ClaimedPlatformLine(splitlines(current_output)[i])])]_vars

(***************************************************************************)
(* Properties of the status Not.                                           *)
(***************************************************************************)
\* C23 as stated: when --cygwin or --mingw returns Not with stop_on_error
\* true and tokens remain, the run is not halted: the loop goes on to
\* dispatch them.
C23_NotDoesNotHalt ==
    [][\A func \in {"cygwin_version", "mingw_version"} :
          Returns(func, Not) /\ stop_on_error /\ args' # <<>>
             => pc' = "loop"]_vars

(***************************************************************************)
(* Properties of the line boundaries.                                      *)
(***************************************************************************)
\* the buffer that --in makes of the text handed to it
OriginalBuffer == replace(Original, "\\n", "\n")

\* C24 as stated: a buffer that ends with a line break is left as it is,
\* line break included, by --filter with a pattern that matches every
\* line, by --exclude of an empty range, by --sort of lines that are in
\* order already, and by the second of two --reverse.
C24_TrailingSegmentKept ==
    [][/\ endswith(current_output, "\n") /\ pc' # "raised" /\ result' = Ok
          => /\ (/\ calls' = Append(calls, "filter_lines")
                 /\ \A i \in 1..Len(splitlines(current_output)) :
                       re_search(params'[1], splitlines(current_output)[i]))
                   => current_output' = current_output
             /\ (/\ calls' = Append(calls, "remove_lines")
                 /\ params'[1] = params'[2] /\ params'[1] > 0)
                   => current_output' = current_output
             /\ (/\ calls' = Append(calls, "sort")
                 /\ sorted_lines(splitlines(current_output), SortSettings(params'[1]))
                      = splitlines(current_output))
                   => current_output' = current_output
       /\ (/\ calls = <<"append", "reverse_lines">>
           /\ calls' = Append(calls, "reverse_lines")
           /\ endswith(OriginalBuffer, "\n"))
             => current_output' = OriginalBuffer]_vars

(***************************************************************************)
(* Properties of the lines --sort cannot give a key.                       *)
(***************************************************************************)
\* the line is one whose failure ignore_error_lines absorbs: its column is
\* out of range, the pattern does not match it, or the text of the group
\* cannot be converted
IsErrorLine(c, line) ==
    /\ sort_get_value(c, line) # ErrKey
    /\ sort_get_value([c EXCEPT !.ignore_error_lines = FALSE], line) = ErrKey

\* C27 as stated: under ignore_error_lines, when every line is valid or an
\* error line, --sort returns Ok; with the key function float, int or int16
\* the output is the valid lines in key order and then the error lines in
\* input order, in both directions; with another key function the error
\* lines are sorted under the key "".
C27_ErrorLinesLast ==
    [][(/\ calls' = Append(calls, "sort")
        /\ SortSettings(params'[1]).error = Ok
        /\ SortSettings(params'[1]).ignore_error_lines
        /\ \A i \in 1..Len(splitlines(current_output)) :
              sort_get_value(SortSettings(params'[1]),
                             splitlines(current_output)[i]) # ErrKey)
          => LET c == SortSettings(params'[1])
                 ls == splitlines(current_output)
                 valid == SelectSeq(ls, LAMBDA l : ~IsErrorLine(c, l))
                 errors == SelectSeq(ls, LAMBDA l : IsErrorLine(c, l))
             IN /\ pc' # "raised"
                /\ result' = Ok
                /\ current_output' =
                      IF c.key_func \in {"float", "int", "int16"}
                      THEN join("\n", sorted_lines(valid, c) \o errors)
                      ELSE join("\n", sorted_lines(ls, [c EXCEPT !.use_numeric = FALSE]))]_vars

(***************************************************************************)
(* Properties of the format of --sum.                                      *)
(***************************************************************************)
\* the digits behind the decimal point of a rendered number
Decimals(text) == IF contains(text, ".") THEN Len(text) - find(text, ".") ELSE 0

\* the one "float=N" flag of a flag list whose other flags are "column=...",
\* "ignore_error_lines" and "none"
FloatFlags(flags) ==
    LET fl == split_comma(flags)
    IN {k \in 1..Len(fl) :
          /\ startswith(fl[k], "float=")
          /\ IsDigits(removeprefix(fl[k], "float="))
          /\ \A j \in (1..Len(fl)) \ {k} :
                \/ fl[j] \in {"ignore_error_lines", "none"}
                \/ startswith(fl[j], "column=")}

\* C28 as stated: when the flag list of --sum holds float=N, in whatever
\* place among column=..., ignore_error_lines and none, the stage does not
\* raise, and a finite total is rendered with exactly N decimals.
C28_FloatPrecision ==
    [][calls' = Append(calls, "sum_lines")
          => \A k \in FloatFlags(params'[1]) :
                /\ pc' # "raised"
                /\ (result' = Ok /\ current_output' \notin {"inf", "-inf", "nan"})
                      => Decimals(current_output')
                           = int(removeprefix(split_comma(params'[1])[k], "float="))]_vars

(***************************************************************************)
(* Properties of exec_cmd: the files it opens, the children it spawns.     *)
(***************************************************************************)
\* C25 as stated: every file that exec_cmd opened for a sink is closed when
\* the stage of exec_cmd ends, on every path, so that none is open when the
\* interpreter is at a stage boundary.
C25_HandlesClosed == open_files = 0

\* the argument vectors handed to Popen in this step
NewlySpawned == SubSeq(spawned', Len(spawned) + 1, Len(spawned'))

\* what exec_cmd can return as the output of a child
ChildTexts == {removesuffix(out, "\n") : out \in ChildOutputs}

RECURSIVE TotalLen(_)
TotalLen(a) == IF a = <<>> THEN 0 ELSE Len(Head(a)) + TotalLen(Tail(a))

\* the loop can take its next step: it is left at line 981, the head is no
\* command, the parameters are missing or do not convert, or the handler
\* ends, by a return or by an exception
CanStep ==
    \/ args = <<>>
    \/ ~Stage(args).matched
    \/ Stage(args).count_error
    \/ Stage(args).convert_error
    \/ Outcomes(Stage(args)) # {}

\* C30: parse_commands terminates.  In the loop a next step is always
\* possible, and every iteration either ends the run or leaves a list of
\* tokens of strictly smaller total length; the length is a natural number,
\* so no run stays in the loop for ever.
C30_Terminates ==
    /\ [](pc = "loop" => CanStep)
    /\ [][pc = "loop" /\ pc' = "loop" => TotalLen(args') < TotalLen(args)]_vars

\* a chain of three --print in one token has run to its end
C30_Witness ==
    /\ argv = <<"--print=--print=--print">>
    /\ calls = <<"print", "print", "print">>
    /\ args = <<>>
    /\ pc = "returned"

(***************************************************************************)
(* Properties of the sinks --stdout and --stderr.                          *)
(***************************************************************************)
\* the mode of a sink is Write exactly when its path is set
SinkConsistent(mode, path) ==
    /\ mode \in {ModeProcess, ModePrint, ModeIgnore, ModeWrite}
    /\ (mode = ModeWrite) <=> (path # None)

\* C31: in every reachable state each sink is in the mode Write exactly
\* when its path is set; before the first stage stdout is process and
\* stderr is print, without paths; a --stdout stage returns Ok and leaves
\* the mode and the path of stderr as they were, and a --stderr stage
\* returns Ok and leaves those of stdout.
C31_SinksIndependent ==
    /\ [](/\ SinkConsistent(stdout_mode, stdout_path)
          /\ SinkConsistent(stderr_mode, stderr_path)
          /\ (calls = <<>> => (/\ stdout_mode = ModeProcess /\ stdout_path = None
                               /\ stderr_mode = ModePrint /\ stderr_path = None)))
    /\ [][/\ (calls' = Append(calls, "set_stdout")
                => (/\ pc' # "raised" /\ result' = Ok
                    /\ stderr_mode' = stderr_mode /\ stderr_path' = stderr_path))
           /\ (calls' = Append(calls, "set_stderr")
                => (/\ pc' # "raised" /\ result' = Ok
                    /\ stdout_mode' = stdout_mode /\ stdout_path' = stdout_path))]_vars

\* stdout went to a file and back to a mode while stderr stayed a file
C31_Witness ==
    /\ argv = <<"--stdout=f", "--stderr=f", "--stdout=print">>
    /\ calls = <<"set_stdout", "set_stderr", "set_stdout">>
    /\ stdout_mode = ModePrint /\ stdout_path = None
    /\ stderr_mode = ModeWrite /\ stderr_path = Some("f")
    /\ pc = "returned"

(***************************************************************************)
(* What the configuration stages and the buffer sinks leave alone.         *)
(***************************************************************************)
\* C32: --env, --stdout, --stderr, --stoponerror, --out, --append and
\* --print leave the buffer as it was, whatever they return; --env with a
\* value without "=" returns InvalidEnvValue and --stoponerror with a value
\* that is neither true nor false (in any case, blanks around it ignored)
\* returns InvalidOutputMode, and both leave the environment and
\* stop_on_error as they were.
C32_ConfigFrame ==
    [][/\ (\E func \in {"set_env", "set_stdout", "set_stderr", "set_exit",
                         "write_file", "append_file", "print"} :
               calls' = Append(calls, func))
            => current_output' = current_output
       /\ (calls' = Append(calls, "set_env") /\ ~contains(params'[1], "="))
            => (/\ pc' # "raised" /\ result' = InvalidEnvValue
                /\ env' = env /\ stop_on_error' = stop_on_error)
       /\ (/\ calls' = Append(calls, "set_exit")
           /\ lower(strip(params'[1])) \notin {"true", "false"})
            => (/\ pc' # "raised" /\ result' = InvalidOutputMode
                /\ env' = env /\ stop_on_error' = stop_on_error)]_vars

\* a rejected --stoponerror after stop_on_error was switched off
C32_Witness ==
    /\ argv = <<"--stoponerror=false", "--in=a\\nb", "--stoponerror=no">>
    /\ calls = <<"set_exit", "append", "set_exit">>
    /\ result = InvalidOutputMode
    /\ ~stop_on_error
    /\ current_output = "a\nb"
    /\ pc = "returned"

====
